---- MODULE Spec2Model ----
(***************************************************************************)
(* Powers Explorer: the FIFO selection (ObjectSelector, StateManager), the *)
(* distance index (DataManager) and the light-travel plan                  *)
(* (LightSpeedTraveler), modelled from the JavaScript sources.             *)
(*                                                                         *)
(* JavaScript arrays are objects with identity: the model keeps them in a  *)
(* heap (address -> contents), so that "a copy" and "the same array" are   *)
(* different things.                                                       *)
(***************************************************************************)
EXTENDS Integers, Sequences, FiniteSets, TLC

(***************************************************************************)
(* Bounds of the model and program constants                               *)
(***************************************************************************)
NumIds == 3            \* how many object ids the user can click
MaxListLen == 3        \* longest list a caller grows a handed-out array to
MaxRecords == 2        \* most distance records in cosmic-objects.json
MaxSmall == 6          \* small distances and speeds run over -1..MaxSmall
NumTweens == 2         \* tweens a caller hands to AnimationManager
MaxStarts == 3         \* startAnimation calls in one run
MaxBuilt == 3          \* objects of one manager class built in one run

MAX_SELECTIONS == 2    \* Constants.js: export const MAX_SELECTIONS = 2

IdNames == <<"A", "B", "C", "D", "E", "F">>
Ids == {IdNames[i] : i \in 1..NumIds}

None == "none"              \* no id / no call
Undefined == "undefined"    \* the JavaScript value undefined
NullRef == 0                \* null / no array held

VARIABLES
  heap,               \* the arrays alive in the program: address -> contents
  osSelectedIds,      \* ObjectSelector.selectedIds (address of the array)
  smSelectedObjects,  \* StateManager.state.comparison.selectedObjects (address)
  osHanded,           \* array last handed to a caller by ObjectSelector
  smHanded,           \* array last handed to a caller by StateManager
  cardSelected,       \* ids whose ObjectSelector card has isSelected = true
  last,               \* the most recent call: its arguments and its effects
  cosmicObjects,      \* DataManager.cosmicObjects (its distances array)
  distanceCache,      \* DataManager.distanceCache: key -> distance record
  dmQuery,            \* the most recent getDistance call and its result
  dmPrev,             \* the getDistance call before that one
  lightTraveler,      \* CosmicComparisonScene.lightTraveler: the plan it holds
  scaleCall,          \* the most recent ScaleCalculator call and what it returned
  scene,              \* CosmicComparisonScene and the comparison phase
  anim,               \* AnimationManager, the tweens and the promises it made
  managers,           \* the manager classes: static instance, objects built
  boot                \* BootScene.create and the loader it waits for

selVars == <<heap, osSelectedIds, smSelectedObjects, osHanded, smHanded,
             cardSelected, last>>

dmVars == <<cosmicObjects, distanceCache, dmQuery, dmPrev>>

ltVars == <<lightTraveler>>

scVars == <<scaleCall>>

scnVars == <<scene>>

amVars == <<anim>>

sgVars == <<managers>>

btVars == <<boot>>

vars == <<heap, osSelectedIds, smSelectedObjects, osHanded, smHanded,
          cardSelected, last, cosmicObjects, distanceCache, dmQuery, dmPrev,
          lightTraveler, scaleCall, scene, anim, managers, boot>>

\* `before` is the array operated on as it was before the call; `heldBefore`
\* is the caller's list before the call and `heldSame` says that the caller
\* still holds that same array after it
NoCall == [obj |-> None, op |-> None, arg |-> None, before |-> <<>>,
           removed |-> None, ret |-> Undefined, events |-> <<>>,
           prevOp |-> None, heldBefore |-> <<>>, heldSame |-> FALSE]

\* the contents of the list a caller holds (nothing held: the empty list)
Held(h, ref) == IF ref = NullRef THEN <<>> ELSE h[ref]

(***************************************************************************)
(* The heap of arrays                                                      *)
(***************************************************************************)
\* `[]` and `[...x]` create a new array at an address no live array has
NewAddr(h) == CHOOSE a \in 1..(Cardinality(DOMAIN h) + 1) : a \notin DOMAIN h

\* An address is only an identity. After each step the arrays still referred
\* to are renamed 1, 2, ... in the order ObjectSelector.selectedIds,
\* StateManager's selectedObjects, ObjectSelector's handed-out list,
\* StateManager's handed-out list; arrays nothing refers to are garbage.
Rank(roots, a) ==
  LET first == CHOOSE i \in 1..Len(roots) :
                 roots[i] = a /\ \A j \in 1..(i - 1) : roots[j] # a
  IN Cardinality({roots[j] : j \in 1..first} \ {NullRef})

Rename(roots, a) == IF a = NullRef THEN NullRef ELSE Rank(roots, a)

Commit(h, os, sm, oh, sh) ==
  LET roots == <<os, sm, oh, sh>>
      live == {roots[i] : i \in 1..4} \ {NullRef}
  IN /\ heap' = [n \in {Rank(roots, a) : a \in live} |->
                   h[CHOOSE a \in live : Rank(roots, a) = n]]
     /\ osSelectedIds' = Rename(roots, os)
     /\ smSelectedObjects' = Rename(roots, sm)
     /\ osHanded' = Rename(roots, oh)
     /\ smHanded' = Rename(roots, sh)

\* the contents of the two selections
osIds == heap[osSelectedIds]
smIds == heap[smSelectedObjects]

(***************************************************************************)
(* ObjectSelector                                                          *)
(***************************************************************************)
\* this.maxSelections = MAX_SELECTIONS
maxSelections == MAX_SELECTIONS

\* if (this.selectedIds.length >= this.maxSelections)
OS_atCapacityStrict(arr) == Len(arr) > maxSelections
OS_atCapacity(arr) == Len(arr) >= maxSelections

\* const removedId = this.selectedIds.shift()
OS_removedIdLast(arr) == IF OS_atCapacity(arr) THEN arr[Len(arr)] ELSE None
OS_removedId(arr) == IF OS_atCapacity(arr) THEN Head(arr) ELSE None

\* selectedIds after shift() (when at capacity) and push(objectId)
OS_afterSelectPop(arr, objectId) ==
  Append(IF OS_atCapacity(arr) THEN SubSeq(arr, 1, Len(arr) - 1) ELSE arr,
         objectId)
OS_afterSelectDedup(arr, objectId) ==
  IF \E i \in 1..Len(arr) : arr[i] = objectId
  THEN arr
  ELSE Append(IF OS_atCapacity(arr) THEN Tail(arr) ELSE arr, objectId)
OS_afterSelect(arr, objectId) ==
  Append(IF OS_atCapacity(arr) THEN Tail(arr) ELSE arr, objectId)

\* selectCard / deselectCard: card.isSelected
OS_cardsAfterSelect(cards, arr, objectId) ==
  (IF OS_atCapacity(arr) THEN cards \ {OS_removedId(arr)} ELSE cards)
     \cup {objectId}

\* if (this.selectedIds.length === this.maxSelections), after the push
OS_isFullStrict(arr) == Len(arr) > maxSelections
OS_isFull(arr) == Len(arr) = maxSelections

\* the return value of selectObject: the method has no return statement
OS_selectReturn(arr) == Undefined

\* selectObject(objectId): what it does to the selector and to the list the
\* 'selectionComplete' listener receives
OS_selectObject(objectId) ==
  LET arr == osIds
      pushed == OS_afterSelect(arr, objectId)
      complete == OS_isFull(pushed)
      h1 == [heap EXCEPT ![osSelectedIds] = pushed]
      copy == NewAddr(h1)                  \* [...this.selectedIds]
      h2 == IF complete THEN (copy :> pushed) @@ h1 ELSE h1
      handed == IF complete THEN copy ELSE osHanded
  IN /\ Commit(h2, osSelectedIds, smSelectedObjects, handed, smHanded)
     /\ cardSelected' = OS_cardsAfterSelect(cardSelected, arr, objectId)
     /\ last' = [obj |-> "ObjectSelector", op |-> "selectObject",
                 arg |-> objectId, before |-> arr,
                 removed |-> OS_removedId(arr),
                 ret |-> OS_selectReturn(arr),
                 events |-> IF complete
                            THEN <<"objectSelected", "selectionComplete">>
                            ELSE <<"objectSelected">>,
                 prevOp |-> IF last.obj = "ObjectSelector" THEN last.op ELSE None,
                 heldBefore |-> Held(heap, osHanded),
                 heldSame |-> osHanded # NullRef /\ ~complete]

\* selectObject(objectId), no listener registered
ObjectSelector_selectObject(objectId) ==
  /\ OS_selectObject(objectId)
  /\ UNCHANGED <<dmVars, ltVars, scVars, scnVars, amVars, sgVars, btVars>>

\* this.selectedIds = []
OS_afterClearPop(arr) == IF arr = <<>> THEN <<>> ELSE SubSeq(arr, 1, Len(arr) - 1)
OS_afterClear(arr) == <<>>

\* clearSelection(): what it does to the selector
OS_clearSelection ==
  LET arr == osIds
      fresh == NewAddr(heap)
      h1 == (fresh :> OS_afterClear(arr)) @@ heap
  IN /\ Commit(h1, fresh, smSelectedObjects, osHanded, smHanded)
     /\ cardSelected' = cardSelected \ {arr[i] : i \in 1..Len(arr)}
     /\ last' = [obj |-> "ObjectSelector", op |-> "clearSelection",
                 arg |-> None, before |-> arr, removed |-> None,
                 ret |-> Undefined, events |-> <<"selectionCleared">>,
                 prevOp |-> IF last.obj = "ObjectSelector" THEN last.op ELSE None,
                 heldBefore |-> Held(heap, osHanded),
                 heldSame |-> osHanded # NullRef]

\* clearSelection()
ObjectSelector_clearSelection ==
  /\ OS_clearSelection
  /\ UNCHANGED <<dmVars, ltVars, scVars, scnVars, amVars, sgVars, btVars>>

\* getSelectedIds(): return [...this.selectedIds]
ObjectSelector_getSelectedIds ==
  LET copy == NewAddr(heap)
      h1 == (copy :> osIds) @@ heap
  IN /\ Commit(h1, osSelectedIds, smSelectedObjects, copy, smHanded)
     /\ last' = [obj |-> "ObjectSelector", op |-> "getSelectedIds",
                 arg |-> None, before |-> osIds, removed |-> None,
                 ret |-> "array", events |-> <<>>,
                 prevOp |-> IF last.obj = "ObjectSelector" THEN last.op ELSE None,
                 heldBefore |-> Held(heap, osHanded), heldSame |-> FALSE]
     /\ UNCHANGED <<cardSelected, dmVars, ltVars, scVars, scnVars, amVars,
                    sgVars, btVars>>

(***************************************************************************)
(* StateManager                                                            *)
(***************************************************************************)
\* if (this.state.comparison.selectedObjects.length >= MAX_SELECTIONS)
SM_atCapacityStrict(arr) == Len(arr) > MAX_SELECTIONS
SM_atCapacity(arr) == Len(arr) >= MAX_SELECTIONS

\* const removed = this.state.comparison.selectedObjects.shift()
SM_removed(arr) == IF SM_atCapacity(arr) THEN Head(arr) ELSE None

\* selectedObjects after shift() (when at capacity) and push(objectId)
SM_afterSelect(arr, objectId) ==
  Append(IF SM_atCapacity(arr) THEN Tail(arr) ELSE arr, objectId)

\* selectObject(objectId); 'selectionComplete' carries the array itself
StateManager_selectObject(objectId) ==
  LET arr == smIds
      pushed == SM_afterSelect(arr, objectId)
      complete == Len(pushed) = MAX_SELECTIONS
      h1 == [heap EXCEPT ![smSelectedObjects] = pushed]
      handed == IF complete THEN smSelectedObjects ELSE smHanded
  IN /\ Commit(h1, osSelectedIds, smSelectedObjects, osHanded, handed)
     /\ last' = [obj |-> "StateManager", op |-> "selectObject",
                 arg |-> objectId, before |-> arr,
                 removed |-> SM_removed(arr), ret |-> Undefined,
                 events |-> IF complete
                            THEN <<"objectSelected", "selectionComplete">>
                            ELSE <<"objectSelected">>,
                 prevOp |-> IF last.obj = "StateManager" THEN last.op ELSE None,
                 heldBefore |-> Held(heap, smHanded),
                 heldSame |-> smHanded # NullRef /\ handed = smHanded]
     /\ UNCHANGED <<cardSelected, dmVars, ltVars, scVars, scnVars, amVars,
                    sgVars, btVars>>

\* clearSelection(): this.state.comparison.selectedObjects = []
StateManager_clearSelection ==
  LET arr == smIds
      fresh == NewAddr(heap)
      h1 == (fresh :> <<>>) @@ heap
  IN /\ Commit(h1, osSelectedIds, fresh, osHanded, smHanded)
     /\ last' = [obj |-> "StateManager", op |-> "clearSelection",
                 arg |-> None, before |-> arr, removed |-> None,
                 ret |-> Undefined, events |-> <<"selectionCleared">>,
                 prevOp |-> IF last.obj = "StateManager" THEN last.op ELSE None,
                 heldBefore |-> Held(heap, smHanded),
                 heldSame |-> smHanded # NullRef]
     /\ UNCHANGED <<cardSelected, dmVars, ltVars, scVars, scnVars, amVars,
                    sgVars, btVars>>

\* getSelectedObjects(): return [...this.state.comparison.selectedObjects]
StateManager_getSelectedObjects ==
  LET copy == NewAddr(heap)
      h1 == (copy :> smIds) @@ heap
  IN /\ Commit(h1, osSelectedIds, smSelectedObjects, osHanded, copy)
     /\ last' = [obj |-> "StateManager", op |-> "getSelectedObjects",
                 arg |-> None, before |-> smIds, removed |-> None,
                 ret |-> "array", events |-> <<>>,
                 prevOp |-> IF last.obj = "StateManager" THEN last.op ELSE None,
                 heldBefore |-> Held(heap, smHanded), heldSame |-> FALSE]
     /\ UNCHANGED <<cardSelected, dmVars, ltVars, scVars, scnVars, amVars,
                    sgVars, btVars>>

(***************************************************************************)
(* A driver that makes every call on both selections                       *)
(***************************************************************************)
\* the next call of the sequence, made on the ObjectSelector
Driver_selectorCall ==
  /\ last.obj # "ObjectSelector"
  /\ \/ \E id \in Ids : ObjectSelector_selectObject(id)
     \/ ObjectSelector_clearSelection

\* the same call, made on the StateManager
Driver_stateManagerCall ==
  /\ last.obj = "ObjectSelector"
  /\ IF last.op = "selectObject"
     THEN StateManager_selectObject(last.arg)
     ELSE StateManager_clearSelection

(***************************************************************************)
(* A caller that keeps the list it was handed and changes it               *)
(***************************************************************************)
\* list.push(id) on the array a caller received
Caller_push(ref, objectId) ==
  /\ ref # NullRef
  /\ Len(heap[ref]) < MaxListLen
  /\ heap' = [heap EXCEPT ![ref] = Append(@, objectId)]
  /\ last' = [obj |-> "caller", op |-> "push", arg |-> objectId,
              before |-> heap[ref], removed |-> None, ret |-> Undefined,
              events |-> <<>>, prevOp |-> None,
              heldBefore |-> heap[ref], heldSame |-> TRUE]
  /\ UNCHANGED <<osSelectedIds, smSelectedObjects, osHanded, smHanded,
                 cardSelected, dmVars, ltVars, scVars, scnVars, amVars,
                 sgVars, btVars>>

\* list.pop() on the array a caller received
Caller_pop(ref) ==
  /\ ref # NullRef
  /\ heap[ref] # <<>>
  /\ heap' = [heap EXCEPT ![ref] = SubSeq(@, 1, Len(@) - 1)]
  /\ last' = [obj |-> "caller", op |-> "pop", arg |-> None,
              before |-> heap[ref], removed |-> None, ret |-> Undefined,
              events |-> <<>>, prevOp |-> None,
              heldBefore |-> heap[ref], heldSame |-> TRUE]
  /\ UNCHANGED <<osSelectedIds, smSelectedObjects, osHanded, smHanded,
                 cardSelected, dmVars, ltVars, scVars, scnVars, amVars,
                 sgVars, btVars>>

(***************************************************************************)
(* DataManager: the distance index                                         *)
(***************************************************************************)
\* object ids as they appear in cosmic-objects.json: any string is an id
DmIds == {"a", "b", "a-a", "b-a"}

\* this.cosmicObjects = null
NoData == [present |-> FALSE, distances |-> <<>>]

\* getDistance found nothing: Map.get gives undefined
NoDistance == [from |-> Undefined, to |-> Undefined, distance |-> 0]

\* `indexed` says that the index had been built when the call was made
NoQuery == [fromId |-> None, toId |-> None, result |-> NoDistance,
            indexed |-> FALSE]

\* the distances array of a data file: the i-th record joins pairs[i] and
\* has distance i, which keeps the records of one file distinguishable
DistanceRecords(pairs) ==
  [i \in 1..Len(pairs) |->
     [from |-> pairs[i][1], to |-> pairs[i][2], distance |-> i]]

PairLists == UNION {[1..n -> DmIds \X DmIds] : n \in 0..MaxRecords}

\* const key = `${dist.from}-${dist.to}`
DistKey(from, to) == from \o "-" \o to

\* buildIndexes: distanceCache.clear(); distances.forEach(dist =>
\* distanceCache.set(key, dist)) - a later record replaces an earlier one
\* with the same key
BuildDistanceCache(distances) ==
  LET keys == {DistKey(distances[i].from, distances[i].to) :
                 i \in 1..Len(distances)}
      lastAt(k) == CHOOSE i \in 1..Len(distances) :
                     /\ DistKey(distances[i].from, distances[i].to) = k
                     /\ \A j \in (i + 1)..Len(distances) :
                          DistKey(distances[j].from, distances[j].to) # k
  IN [k \in keys |-> distances[lastAt(k)]]

\* the loader's 'complete' handler: take the data from the cache,
\* validateData (a distances array is present), buildIndexes
DataManager_loadComplete(pairs) ==
  /\ ~cosmicObjects.present
  /\ cosmicObjects' = [present |-> TRUE, distances |-> DistanceRecords(pairs)]
  /\ distanceCache' = BuildDistanceCache(DistanceRecords(pairs))
  /\ UNCHANGED <<dmQuery, dmPrev, selVars, ltVars, scVars, scnVars, amVars,
                 sgVars, btVars>>

\* this.distanceCache.get(key1) || this.distanceCache.get(key2)
GetDistance(cache, fromId, toId) ==
  LET key1 == DistKey(fromId, toId)
      key2 == DistKey(toId, fromId)
  IN IF key1 \in DOMAIN cache THEN cache[key1]
     ELSE IF key2 \in DOMAIN cache THEN cache[key2]
     ELSE NoDistance

\* getDistance(fromId, toId)
DataManager_getDistance(fromId, toId) ==
  /\ dmQuery' = [fromId |-> fromId, toId |-> toId,
                 result |-> GetDistance(distanceCache, fromId, toId),
                 indexed |-> cosmicObjects.present]
  /\ dmPrev' = dmQuery
  /\ UNCHANGED <<cosmicObjects, distanceCache, selVars, ltVars, scVars,
                 scnVars, amVars, sgVars, btVars>>

(***************************************************************************)
(* JavaScript numbers                                                      *)
(*                                                                         *)
(* A number is a fraction n/d (d > 0), NaN, Infinity or -Infinity.         *)
(* Fractions are exact: the rounding of IEEE doubles is not modelled.      *)
(***************************************************************************)
Frac(n, d) == [k |-> "fin", n |-> n, d |-> d]
NaN == [k |-> "nan", n |-> 0, d |-> 1]
PosInfinity == [k |-> "inf", n |-> 1, d |-> 1]
NegInfinity == [k |-> "inf", n |-> -1, d |-> 1]

Sign(i) == IF i > 0 THEN 1 ELSE IF i < 0 THEN -1 ELSE 0
Abs(i) == IF i < 0 THEN -i ELSE i

RECURSIVE Gcd(_, _)
Gcd(a, b) == IF b = 0 THEN a ELSE Gcd(b, a % b)

\* the same number in lowest terms
Reduced(x) ==
  IF x.k # "fin" THEN x
  ELSE LET g == Gcd(Abs(x.n), x.d) IN Frac(x.n \div g, x.d \div g)

\* x === y (NaN equals nothing)
JsEq(x, y) == x.k # "nan" /\ y.k # "nan" /\ Reduced(x) = Reduced(y)

\* x > y (false when either is NaN)
JsGe(x, y) ==
  /\ x.k # "nan" /\ y.k # "nan"
  /\ IF x.k = "inf" THEN x.n > 0 \/ (y.k = "inf" /\ y.n < 0)
     ELSE IF y.k = "inf" THEN y.n < 0
     ELSE x.n * y.d >= y.n * x.d
JsGt(x, y) ==
  /\ x.k # "nan" /\ y.k # "nan"
  /\ IF x.k = "inf" THEN x.n > 0 /\ ~(y.k = "inf" /\ y.n > 0)
     ELSE IF y.k = "inf" THEN y.n < 0
     ELSE x.n * y.d > y.n * x.d

\* x <= y (false when either is NaN)
JsLe(x, y) == JsGe(y, x)

\* a / b for two integers: division by zero gives NaN or an infinity
JsDivInt(a, b) ==
  IF b = 0
  THEN (IF a = 0 THEN NaN ELSE IF a > 0 THEN PosInfinity ELSE NegInfinity)
  ELSE Frac(a * Sign(b), Abs(b))

\* x * m and x / m for a positive integer m
JsTimes(x, m) == IF x.k = "fin" THEN Frac(x.n * m, x.d) ELSE x
JsOver(x, m) == IF x.k = "fin" THEN Frac(x.n, x.d * m) ELSE x

\* Math.min(x, y): NaN when either is NaN
JsMin(x, y) ==
  IF x.k = "nan" \/ y.k = "nan" THEN NaN
  ELSE IF JsLe(x, y) THEN x ELSE y

\* x < y (false when either is NaN)
JsLt(x, y) == JsGt(y, x)

\* Math.max(x, y): NaN when either is NaN
JsMax(x, y) ==
  IF x.k = "nan" \/ y.k = "nan" THEN NaN
  ELSE IF JsGe(x, y) THEN x ELSE y

\* x * y: Infinity * 0 is NaN
JsMul(x, y) ==
  IF x.k = "nan" \/ y.k = "nan" THEN NaN
  ELSE IF x.k = "inf" \/ y.k = "inf"
       THEN (IF x.n = 0 \/ y.n = 0 THEN NaN
             ELSE IF Sign(x.n) = Sign(y.n) THEN PosInfinity ELSE NegInfinity)
       ELSE Reduced(Frac(x.n * y.n, x.d * y.d))

\* x / y: 0 / 0 and Infinity / Infinity are NaN, n / 0 is an infinity
JsDiv(x, y) ==
  IF x.k = "nan" \/ y.k = "nan" THEN NaN
  ELSE IF x.k = "inf"
       THEN (IF y.k = "inf" THEN NaN
             ELSE IF Sign(x.n) * Sign(y.n) < 0 THEN NegInfinity
             ELSE PosInfinity)
       ELSE IF y.k = "inf" THEN Frac(0, 1)
       ELSE IF y.n = 0
            THEN (IF x.n = 0 THEN NaN
                  ELSE IF x.n > 0 THEN PosInfinity ELSE NegInfinity)
            ELSE Reduced(Frac(x.n * y.d * Sign(y.n), x.d * Abs(y.n)))

\* the largest e >= from with 2^e * d <= n (n >= d > 0)
RECURSIVE FloorLog2(_, _, _)
FloorLog2(n, d, from) ==
  IF 2 * d > n THEN from ELSE FloorLog2(n, 2 * d, from + 1)

RECURSIVE Pow(_, _)
Pow(b, e) == IF e = 0 THEN 1 ELSE b * Pow(b, e - 1)

\* Math.log1p(x). The logarithm of 1 + x is taken to base 2 and interpolated
\* linearly between two powers of two: e + (v - 2^e) / 2^e for 2^e <= v <
\* 2^(e+1). It is 0 at x = 0, strictly increasing and positive for x > 0;
\* a quotient of two logarithms does not depend on the base.
Log1p(x) ==
  IF x.k = "nan" THEN NaN
  ELSE IF x.k = "inf" THEN (IF x.n > 0 THEN PosInfinity ELSE NaN)
  ELSE IF x.n + x.d < 0 THEN NaN
  ELSE IF x.n + x.d = 0 THEN NegInfinity
  ELSE IF x.n <= 0 THEN x
  ELSE LET e == FloorLog2(x.n + x.d, x.d, 0)
           p == Pow(2, e)
       IN Reduced(Frac(e * p * x.d + x.n + x.d - p * x.d, p * x.d))

(***************************************************************************)
(* LightSpeedTraveler                                                      *)
(*                                                                         *)
(* Lengths are in units of 100 km, so that every product stays within      *)
(* TLC's 32-bit integers; d / c does not depend on the unit.               *)
(***************************************************************************)
LIGHT_MAX == 10000     \* ANIMATION_DURATION.LIGHT_MAX, milliseconds
SpeedOfLight == 2998   \* 299,792,458 m/s to four digits, in 100 km per second
EarthMoon == 3844      \* 384,400,000 m
EarthSun == 1496 * 1000   \* about 150 million km (1.496e11 m)

\* the distances and speeds the data files may hold
LightDistances == (-1..MaxSmall) \cup
                  {10, 11, SpeedOfLight, EarthMoon, 29980, 29981, EarthSun}
LightSpeeds == (-1..MaxSmall) \cup {SpeedOfLight}

NoTraveler == [created |-> FALSE, realDistance |-> 0, speedOfLight |-> 0,
               travelTime |-> NaN, animationDuration |-> NaN,
               isTimeLapsed |-> FALSE, speedMultiplier |-> NaN]

\* if (realTimeMs > ANIMATION_DURATION.LIGHT_MAX)
LT_overCapOrEqual(realTimeMs) == JsGe(realTimeMs, Frac(LIGHT_MAX, 1))
LT_overCap(realTimeMs) == JsGt(realTimeMs, Frac(LIGHT_MAX, 1))

\* calculateAnimationDuration()
CalculateAnimationDuration(travelTime) ==
  LET realTimeMs == JsTimes(travelTime, 1000)
  IN [animationDuration |-> JsMin(realTimeMs, Frac(LIGHT_MAX, 1)),
      isTimeLapsed |-> LT_overCap(realTimeMs),
      speedMultiplier |-> IF LT_overCap(realTimeMs)
                          THEN JsOver(realTimeMs, LIGHT_MAX)
                          ELSE Frac(1, 1)]

\* new LightSpeedTraveler(scene, startPoint, endPoint, realDistance), with
\* constants.speedOfLight.value = speedOfLight: the object constructed
NewLightSpeedTraveler(realDistance, speedOfLight) ==
  LET travelTime == JsDivInt(realDistance, speedOfLight)
      plan == CalculateAnimationDuration(travelTime)
  IN [created |-> TRUE, realDistance |-> realDistance,
      speedOfLight |-> speedOfLight, travelTime |-> travelTime,
      animationDuration |-> plan.animationDuration,
      isTimeLapsed |-> plan.isTimeLapsed,
      speedMultiplier |-> plan.speedMultiplier]

LightSpeedTraveler_constructor(realDistance, speedOfLight) ==
  /\ lightTraveler' = NewLightSpeedTraveler(realDistance, speedOfLight)
  /\ UNCHANGED <<selVars, dmVars, scVars, scnVars, amVars, sgVars, btVars>>

(***************************************************************************)
(* ScaleCalculator: sizes and distances on screen                          *)
(***************************************************************************)
MIN_SIZE == 10                      \* SCALE_DISPLAY.MIN_SIZE
MAX_SCREEN_RATIO == Frac(4, 10)     \* SCALE_DISPLAY.MAX_SCREEN_RATIO: 0.4
ProportionalWidthRatio == Frac(7, 10)   \* screenWidth * 0.7

Num(i) == Frac(i, 1)

\* the numbers a caller may pass: diameters, reference sizes and screen
\* widths in the unit the caller likes
ScDiameters == {Num(-1), Num(0), Frac(1, 1000), Num(1), Num(2), Num(10),
                Num(20), Num(2000)}
ScReferences == {Num(-1), Num(0), Num(1), Num(10), Num(1000)}
ScWidths == {Num(-1), Num(0), Num(10), Num(20), Num(25), Num(30), Num(1000),
             Num(1280), NaN, PosInfinity}
ScDistances == {Num(-1), Num(0), Frac(1, 2), Num(1), Num(2), Num(10),
                Num(15000), NaN}
ScPropDiameters == {Num(-1), Num(0), Num(1), Num(2), Num(4), Num(139)}

\* The functions are static and keep nothing between calls: a run is one
\* call, and scaleCall records its arguments and what it returned.
NoScaleCall == [fn |-> None, args |-> <<>>, num |-> NaN, text |-> <<>>]

\* Math.max(minScreenSize, Math.min(screenSize, maxScreenSize))
SC_clampMaxWins(screenSize, minScreenSize, maxScreenSize) ==
  JsMin(JsMax(screenSize, minScreenSize), maxScreenSize)
SC_clamp(screenSize, minScreenSize, maxScreenSize) ==
  JsMax(minScreenSize, JsMin(screenSize, maxScreenSize))

\* static calculateScreenDiameter(realDiameter, screenWidth, referenceSize)
CalculateScreenDiameter(realDiameter, screenWidth, referenceSize) ==
  LET maxScreenSize == JsMul(screenWidth, MAX_SCREEN_RATIO)
      minScreenSize == Num(MIN_SIZE)
      ratio == JsDiv(realDiameter, referenceSize)
      screenSize == JsMul(maxScreenSize, ratio)
  IN SC_clamp(screenSize, minScreenSize, maxScreenSize)

\* if (realDistance <= 0) return 0; if (maxRealDistance <= 0) return 0
SC_guardRealOnly(realDistance, maxRealDistance) ==
  JsLe(realDistance, Num(0))
SC_guard(realDistance, maxRealDistance) ==
  JsLe(realDistance, Num(0)) \/ JsLe(maxRealDistance, Num(0))

\* const logMax = Math.log1p(maxRealDistance)
SC_logMaxLog(maxRealDistance) ==
  IF maxRealDistance.k = "fin" /\ maxRealDistance.n > 0
  THEN Log1p(Frac(maxRealDistance.n - maxRealDistance.d, maxRealDistance.d))
  ELSE Log1p(maxRealDistance)
SC_logMax(maxRealDistance) == Log1p(maxRealDistance)

\* static realToScreen(realDistance, maxRealDistance, screenWidth)
RealToScreen(realDistance, maxRealDistance, screenWidth) ==
  IF SC_guard(realDistance, maxRealDistance) THEN Num(0)
  ELSE LET logReal == Log1p(realDistance)
           logMax == SC_logMax(maxRealDistance)
       IN JsMul(JsDiv(logReal, logMax), screenWidth)

\* return Math.max(1, screenSize)
SC_floorNone(screenSize) == screenSize
SC_floor(screenSize) == JsMax(Num(1), screenSize)

\* const linearRatio = realDiameter / realDistance
SC_linearRatioLog(realDiameter, realDistance) ==
  JsDiv(Log1p(realDiameter), realDistance)
SC_linearRatio(realDiameter, realDistance) == JsDiv(realDiameter, realDistance)

\* static calculateProportionalSize(realDiameter, realDistance, screenWidth)
CalculateProportionalSize(realDiameter, realDistance, screenWidth) ==
  IF JsLe(realDistance, Num(0)) \/ JsLe(realDiameter, Num(0)) THEN Num(1)
  ELSE LET screenDistance ==
             RealToScreen(realDistance, realDistance,
                          JsMul(screenWidth, ProportionalWidthRatio))
           linearRatio == SC_linearRatio(realDiameter, realDistance)
           screenSize == JsMul(linearRatio, screenDistance)
       IN SC_floor(screenSize)

ScaleCalculator_calculateScreenDiameter(realDiameter, screenWidth, referenceSize) ==
  /\ scaleCall = NoScaleCall
  /\ scaleCall' = [fn |-> "calculateScreenDiameter",
                   args |-> <<realDiameter, screenWidth, referenceSize>>,
                   num |-> CalculateScreenDiameter(realDiameter, screenWidth,
                                                   referenceSize),
                   text |-> <<>>]
  /\ UNCHANGED <<selVars, dmVars, ltVars, scnVars, amVars, sgVars, btVars>>

ScaleCalculator_realToScreen(realDistance, maxRealDistance, screenWidth) ==
  /\ scaleCall = NoScaleCall
  /\ scaleCall' = [fn |-> "realToScreen",
                   args |-> <<realDistance, maxRealDistance, screenWidth>>,
                   num |-> RealToScreen(realDistance, maxRealDistance,
                                        screenWidth),
                   text |-> <<>>]
  /\ UNCHANGED <<selVars, dmVars, ltVars, scnVars, amVars, sgVars, btVars>>

ScaleCalculator_calculateProportionalSize(realDiameter, realDistance, screenWidth) ==
  /\ scaleCall = NoScaleCall
  /\ scaleCall' = [fn |-> "calculateProportionalSize",
                   args |-> <<realDiameter, realDistance, screenWidth>>,
                   num |-> CalculateProportionalSize(realDiameter, realDistance,
                                                     screenWidth),
                   text |-> <<>>]
  /\ UNCHANGED <<selVars, dmVars, ltVars, scnVars, amVars, sgVars, btVars>>

(***************************************************************************)
(* ScaleCalculator: formatting                                             *)
(*                                                                         *)
(* A string is the sequence of its characters. A length to format is given *)
(* as its decimal literal sign * digits * 10^exp10, which keeps 1e-150     *)
(* within reach of 32-bit integers.                                        *)
(***************************************************************************)
DigitChars == <<"0", "1", "2", "3", "4", "5", "6", "7", "8", "9">>
IsDigit(c) == \E i \in 1..10 : DigitChars[i] = c
DigitOf(c) == (CHOOSE i \in 1..10 : DigitChars[i] = c) - 1

\* String(n) for an integer n
RECURSIVE NatChars(_)
NatChars(n) ==
  IF n < 10 THEN <<DigitChars[n + 1]>>
  ELSE NatChars(n \div 10) \o <<DigitChars[(n % 10) + 1]>>
IntChars(i) == IF i < 0 THEN <<"-">> \o NatChars(-i) ELSE NatChars(i)

\* the number of decimal digits of n >= 1
RECURSIVE NumDigits(_)
NumDigits(n) == IF n < 10 THEN 1 ELSE 1 + NumDigits(n \div 10)

\* the digits of r / d after the point, `places` of them, as an integer,
\* and the remainder left after the last one
RECURSIVE FractionDigits(_, _, _)
FractionDigits(r, d, places) ==
  IF places = 0 THEN [digits |-> 0, rem |-> r]
  ELSE LET rest == FractionDigits(r, d, places - 1)
       IN [digits |-> rest.digits * 10 + ((rest.rem * 10) \div d),
           rem |-> (rest.rem * 10) % d]

\* the integer n for which n / 10^places is closest to |x|, the larger one
\* of two (Number.prototype.toFixed)
FixedScaled(x, places) ==
  LET n == Abs(x.n)
      fd == FractionDigits(n % x.d, x.d, places)
      down == (n \div x.d) * Pow(10, places) + fd.digits
  IN IF 2 * fd.rem >= x.d THEN down + 1 ELSE down

\* n written with at least `width` digits
RECURSIVE PadZero(_, _)
PadZero(chars, width) ==
  IF Len(chars) >= width THEN chars ELSE PadZero(<<"0">> \o chars, width)

\* x.toFixed(places)
ToFixed(x, places) ==
  IF x.k = "nan" THEN <<"N", "a", "N">>
  ELSE IF x.k = "inf"
       THEN (IF x.n < 0 THEN <<"-">> ELSE <<>>)
               \o <<"I", "n", "f", "i", "n", "i", "t", "y">>
       ELSE LET scaled == FixedScaled(x, places)
                unit == Pow(10, places)
            IN (IF x.n < 0 THEN <<"-">> ELSE <<>>)
                 \o NatChars(scaled \div unit) \o <<".">>
                 \o PadZero(NatChars(scaled % unit), places)

\* a length in meters: sign * digits * 10^exp10 (digits = 0: zero)
Dec(sign, digits, exp10) == [sign |-> sign, digits |-> digits, exp10 |-> exp10]

\* Math.abs(meters) < 1e-100
FS_verySmall(meters) ==
  NumDigits(meters.digits) + meters.exp10 <= -100

\* Math.floor(Math.log10(absMeters))
FS_exponent(meters) == NumDigits(meters.digits) - 1 + meters.exp10

\* absMeters / Math.pow(10, exponent)
FS_mantissa(meters) ==
  Reduced(Frac(meters.digits, Pow(10, NumDigits(meters.digits) - 1)))

\* const sign = meters < 0 ? '-' : ''
FS_signNever(meters) == <<>>
FS_sign(meters) == IF meters.sign < 0 THEN <<"-">> ELSE <<>>

ZeroText == <<"0", " ", "m">>
NearZeroText == <<"~", "0", " ", "m">>
TimesTenTo == <<" ", "×", " ", "1", "0", "^">>
MetersSuffix == <<" ", "m">>

\* static formatScale(meters)
FormatScale(meters) ==
  IF meters.digits = 0 THEN ZeroText
  ELSE IF FS_verySmall(meters) THEN NearZeroText
  ELSE FS_sign(meters) \o ToFixed(FS_mantissa(meters), 2) \o TimesTenTo
         \o IntChars(FS_exponent(meters)) \o MetersSuffix

SecondsUnit == <<" ", "s", "e", "c", "o", "n", "d", "s">>
MinutesUnit == <<" ", "m", "i", "n", "u", "t", "e", "s">>
HoursUnit == <<" ", "h", "o", "u", "r", "s">>
DaysUnit == <<" ", "d", "a", "y", "s">>
YearsUnit == <<" ", "y", "e", "a", "r", "s">>

SecondsPerMinute == 60
SecondsPerHour == 3600
SecondsPerDay == 86400
SecondsPerYear == 31536000

\* if (seconds < limit)
FT_belowOrEqual(seconds, limit) == JsLe(seconds, Num(limit))
FT_below(seconds, limit) == JsLt(seconds, Num(limit))

\* static formatTime(seconds)
FormatTime(seconds) ==
  IF FT_below(seconds, SecondsPerMinute)
  THEN ToFixed(seconds, 3) \o SecondsUnit
  ELSE IF FT_below(seconds, SecondsPerHour)
  THEN ToFixed(JsDiv(seconds, Num(SecondsPerMinute)), 2) \o MinutesUnit
  ELSE IF FT_below(seconds, SecondsPerDay)
  THEN ToFixed(JsDiv(seconds, Num(SecondsPerHour)), 2) \o HoursUnit
  ELSE IF FT_below(seconds, SecondsPerYear)
  THEN ToFixed(JsDiv(seconds, Num(SecondsPerDay)), 2) \o DaysUnit
  ELSE ToFixed(JsDiv(seconds, Num(SecondsPerYear)), 2) \o YearsUnit

\* the lengths and durations the displays format
FsDigits == {0, 1, 15, 127, 150, 994, 995, 999, 1000, 9949, 9994, 9995, 9999}
FsExponents == {-150, -104, -103, -102, -101, -100, -3, 0, 2, 5}
FsLengths == {Dec(sg, dg, ex) : sg \in {-1, 1}, dg \in FsDigits,
                                ex \in FsExponents}
FtSeconds == {Num(-1), Num(0), Frac(1282, 1000), Num(59), Frac(59999, 1000),
              Frac(599996, 10000), Num(60), Num(500), Num(3599), Num(3600),
              Num(86399), Num(86400), Num(31535990), Num(31536000),
              Num(40000000), NaN, PosInfinity}

ScaleCalculator_formatScale(meters) ==
  /\ scaleCall = NoScaleCall
  /\ scaleCall' = [fn |-> "formatScale", args |-> <<meters>>, num |-> NaN,
                   text |-> FormatScale(meters)]
  /\ UNCHANGED <<selVars, dmVars, ltVars, scnVars, amVars, sgVars, btVars>>

ScaleCalculator_formatTime(seconds) ==
  /\ scaleCall = NoScaleCall
  /\ scaleCall' = [fn |-> "formatTime", args |-> <<seconds>>, num |-> NaN,
                   text |-> FormatTime(seconds)]
  /\ UNCHANGED <<selVars, dmVars, ltVars, scnVars, amVars, sgVars, btVars>>

(***************************************************************************)
(* CosmicComparisonScene                                                   *)
(***************************************************************************)
\* this.selectedIds = null
NullIds == <<>>

\* The scene before MenuScene starts it. animationPhase is StateManager's
\* state.comparison.animationPhase, 'selection' from its constructor on;
\* oldPhase is the phase the latest setComparisonPhase call replaced and
\* handler is the scene handler that ran last. distanceAnimator and
\* traveler are "null", "animating", "done" or "destroyed".
NoScene == [active |-> FALSE, animationPhase |-> "selection",
            oldPhase |-> None, handler |-> None, selectedIds |-> NullIds,
            selectorVisible |-> FALSE, scaleDisplayVisible |-> FALSE,
            displayed |-> NullIds, distanceButton |-> FALSE,
            newComparisonButton |-> FALSE, noDistanceMessage |-> FALSE,
            distanceAnimator |-> "null", traveler |-> "null"]

\* the data files the scene runs on: no distance record, or one
ScenePairLists == {<<>>} \cup {<<pair>> : pair \in Ids \X Ids}

\* StateManager.setComparisonPhase(phase)
SetComparisonPhase(sc, phase) ==
  [sc EXCEPT !.oldPhase = sc.animationPhase, !.animationPhase = phase]

\* the phases the scene's enter...Phase methods record
SelectionPhase == "selection"
ScaleDisplayPhase == "scaleDisplay"
DistanceAnimationPhaseSkipped == "lightTravel"
DistanceAnimationPhase == "distanceAnimation"
LightTravelPhase == "lightTravel"

\* enterObjectSelectionPhase(): the scene's side
EnterObjectSelectionPhase(sc) ==
  [SetComparisonPhase(sc, SelectionPhase) EXCEPT
     !.selectorVisible = TRUE, !.scaleDisplayVisible = FALSE,
     !.distanceAnimator = "null", !.traveler = "null"]

\* enterScaleDisplayPhase()
EnterScaleDisplayPhase(sc) ==
  [SetComparisonPhase(sc, ScaleDisplayPhase) EXCEPT
     !.selectorVisible = FALSE, !.scaleDisplayVisible = TRUE,
     !.displayed = sc.selectedIds, !.distanceButton = TRUE]

\* this.dataManager.getDistance(this.selectedIds[0], this.selectedIds[1])
SceneDistance(sc) ==
  GetDistance(distanceCache, sc.selectedIds[1], sc.selectedIds[2])

\* enterDistanceAnimationPhase() without the `if (!distanceData)` branch
EnterDistanceAnimationPhaseUnchecked(sc) ==
  [SetComparisonPhase(sc, DistanceAnimationPhase) EXCEPT
     !.distanceAnimator = "animating"]

\* enterDistanceAnimationPhase(): without a record the message and the New
\* Comparison button are shown, with one a DistanceAnimator is started
EnterDistanceAnimationPhase(sc) ==
  LET entered == SetComparisonPhase(sc, DistanceAnimationPhase)
  IN IF SceneDistance(sc) = NoDistance
     THEN [entered EXCEPT !.noDistanceMessage = TRUE,
                          !.newComparisonButton = TRUE]
     ELSE [entered EXCEPT !.distanceAnimator = "animating"]

\* MenuScene.startCosmicComparison -> CosmicComparisonScene.create():
\* initializeComponents (a new ObjectSelector, a hidden ScaleDisplay),
\* registerEventListeners, enterObjectSelectionPhase
MenuScene_startCosmicComparison ==
  /\ ~scene.active
  /\ cosmicObjects.present
  /\ scene' = [EnterObjectSelectionPhase(scene) EXCEPT
                 !.active = TRUE, !.handler = "create",
                 !.selectedIds = NullIds, !.displayed = NullIds,
                 !.distanceButton = FALSE, !.newComparisonButton = FALSE,
                 !.noDistanceMessage = FALSE]
  /\ LET fresh == NewAddr(heap)
     IN Commit((fresh :> <<>>) @@ heap, fresh, smSelectedObjects, NullRef,
               smHanded)
  /\ cardSelected' = {}
  /\ last' = [NoCall EXCEPT !.obj = "ObjectSelector", !.op = "constructor"]
  /\ lightTraveler' = NoTraveler
  /\ UNCHANGED <<dmVars, scVars, amVars, sgVars, btVars>>

\* a card's 'pointerdown' while the selector is shown: selectObject, and
\* with the second id 'selectionComplete' -> onSelectionComplete ->
\* enterScaleDisplayPhase
Scene_cardClicked(objectId) ==
  LET pushed == OS_afterSelect(osIds, objectId)
  IN /\ scene.active
     /\ scene.selectorVisible
     /\ OS_selectObject(objectId)
     /\ scene' = IF OS_isFull(pushed)
                 THEN [EnterScaleDisplayPhase(
                         [scene EXCEPT !.selectedIds = pushed])
                       EXCEPT !.handler = "onSelectionComplete"]
                 ELSE scene
     /\ UNCHANGED <<dmVars, ltVars, scVars, amVars, sgVars, btVars>>

\* the Show Distance button's 'pointerdown': the button is destroyed,
\* enterDistanceAnimationPhase
Scene_showDistanceClicked ==
  /\ scene.active
  /\ scene.distanceButton
  /\ scene' = [EnterDistanceAnimationPhase(
                 [scene EXCEPT !.distanceButton = FALSE])
               EXCEPT !.handler = "enterDistanceAnimationPhase"]
  /\ UNCHANGED <<selVars, dmVars, ltVars, scVars, amVars, sgVars, btVars>>

\* the separation tween completes: 'separationComplete' ->
\* onDistanceComplete -> enterLightTravelPhase, which looks the distance up
\* again, creates the LightSpeedTraveler and starts it
DistanceAnimator_separationComplete ==
  /\ scene.active
  /\ scene.distanceAnimator = "animating"
  /\ LET entered == [SetComparisonPhase(scene, LightTravelPhase) EXCEPT
                       !.handler = "onDistanceComplete",
                       !.distanceAnimator = "done"]
         distanceData == SceneDistance(scene)
     IN IF distanceData = NoDistance
        THEN \* distanceData.distance throws a TypeError
             /\ scene' = entered
             /\ UNCHANGED lightTraveler
        ELSE /\ scene' = [entered EXCEPT !.traveler = "animating"]
             /\ lightTraveler' =
                  NewLightSpeedTraveler(distanceData.distance, SpeedOfLight)
  /\ UNCHANGED <<selVars, dmVars, scVars, amVars, sgVars, btVars>>

\* the light tween completes: 'travelComplete' -> onLightTravelComplete ->
\* createNewComparisonButton
LightSpeedTraveler_travelComplete ==
  /\ scene.active
  /\ scene.traveler = "animating"
  /\ scene' = [scene EXCEPT !.handler = "onLightTravelComplete",
                            !.traveler = "done",
                            !.newComparisonButton = TRUE]
  /\ UNCHANGED <<selVars, dmVars, ltVars, scVars, amVars, sgVars, btVars>>

\* reset() without `this.selectedIds = null`
ResetKeepsSelectedIds(sc) ==
  [EnterObjectSelectionPhase(sc) EXCEPT
     !.handler = "reset", !.displayed = NullIds]

\* reset(), the scene's side: the components are destroyed, the new
\* ScaleDisplay is hidden, selectedIds = null, enterObjectSelectionPhase
Reset(sc) ==
  [EnterObjectSelectionPhase(sc) EXCEPT
     !.handler = "reset", !.selectedIds = NullIds, !.displayed = NullIds]

\* the New Comparison button's 'pointerdown': the button is destroyed,
\* reset(): components destroyed, a new hidden ScaleDisplay, selectedIds =
\* null, objectSelector.clearSelection(), enterObjectSelectionPhase
Scene_newComparisonClicked ==
  /\ scene.active
  /\ scene.newComparisonButton
  /\ scene' = Reset([scene EXCEPT !.newComparisonButton = FALSE])
  /\ OS_clearSelection
  /\ lightTraveler' = NoTraveler
  /\ UNCHANGED <<dmVars, scVars, amVars, sgVars, btVars>>

\* the no-distance message is destroyed when its fade-out ends
Scene_messageFaded ==
  /\ scene.active
  /\ scene.noDistanceMessage
  /\ scene' = [scene EXCEPT !.noDistanceMessage = FALSE]
  /\ UNCHANGED <<selVars, dmVars, ltVars, scVars, amVars, sgVars, btVars>>

\* UIOverlayScene.returnToMenu: the scene is stopped, 'shutdown' runs
\* cleanup(), which destroys the components; the phase StateManager holds
\* is left as it is
UIOverlayScene_returnToMenu ==
  /\ scene.active
  /\ scene' = [scene EXCEPT
                 !.active = FALSE, !.handler = "cleanup",
                 !.selectorVisible = FALSE, !.scaleDisplayVisible = FALSE,
                 !.distanceButton = FALSE, !.newComparisonButton = FALSE,
                 !.noDistanceMessage = FALSE,
                 !.distanceAnimator =
                   IF @ = "null" THEN "null" ELSE "destroyed",
                 !.traveler = IF @ = "null" THEN "null" ELSE "destroyed"]
  /\ UNCHANGED <<selVars, dmVars, ltVars, scVars, amVars, sgVars, btVars>>

(***************************************************************************)
(* AnimationManager                                                        *)
(*                                                                         *)
(* A tween is "created", "active" or "pendingRemove". Phaser 3.70:         *)
(* tween.stop() dispatches 'stop' at once unless the tween is pending      *)
(* removal, 'complete' is dispatched by an active tween when it ends, both *)
(* leave the tween pending removal, and tween.play() makes a tween active  *)
(* again, its listeners still attached.                                    *)
(***************************************************************************)
AmIds == {"x", "y"}
Tweens == 1..NumTweens
NoTween == 0

\* the constructor: an empty Map. promises lists the startAnimation calls
\* in order, each with its id, its tween and the state of the promise it
\* returned: the listeners on a tween are the entries that name it. latest
\* and live follow the tween most recently started under each id: live is
\* true from startAnimation until that tween dispatches 'complete' or
\* 'stop'. op, id, tween, prev and stopped describe the latest call: prev is
\* what the Map held under id before it, stopped the tweens it called
\* stop() on.
NoAnim == [activeAnimations |-> <<>>,
           tweenState |-> [t \in Tweens |-> "created"],
           promises |-> <<>>,
           latest |-> [id \in AmIds |-> NoTween],
           live |-> [id \in AmIds |-> FALSE],
           op |-> None, id |-> None, tween |-> NoTween, prev |-> NoTween,
           stopped |-> {}]

\* Map.has(id), Map.get(id), Map.delete(id), Map.set(id, tween): a Map
\* keeps its entries in insertion order and set() on a key it holds keeps
\* the key's place
MapHas(map, id) == \E i \in DOMAIN map : map[i].id = id

MapGet(map, id) ==
  IF MapHas(map, id)
  THEN map[CHOOSE i \in DOMAIN map : map[i].id = id].tween
  ELSE NoTween

MapDelete(map, ids) == SelectSeq(map, LAMBDA entry : entry.id \notin ids)

MapSet(map, id, tween) ==
  IF MapHas(map, id)
  THEN [i \in DOMAIN map |->
          IF map[i].id = id THEN [id |-> id, tween |-> tween] ELSE map[i]]
  ELSE Append(map, [id |-> id, tween |-> tween])

\* a promise whose resolve() and reject() overwrite its state
SettleAgain(promise, outcome) ==
  [promise EXCEPT !.state = outcome]

\* resolve() / reject(): a promise that is settled stays as it is
Settle(promise, outcome) ==
  IF promise.state = "pending" THEN [promise EXCEPT !.state = outcome]
  ELSE promise

\* the ids of the listeners attached to a tween
ListenerIds(a, tween) ==
  {a.promises[p].id : p \in {q \in DOMAIN a.promises :
                               a.promises[q].tween = tween}}

\* the tween dispatches 'complete' (outcome "resolved") or 'stop'
\* ("rejected"): each listener deletes its id from the Map and settles its
\* promise
Dispatch(a, tween, outcome) ==
  [a EXCEPT
     !.activeAnimations = MapDelete(@, ListenerIds(a, tween)),
     !.promises = [p \in DOMAIN a.promises |->
                     IF a.promises[p].tween = tween
                     THEN Settle(a.promises[p], outcome)
                     ELSE a.promises[p]],
     !.tweenState[tween] = "pendingRemove",
     !.live = [id \in AmIds |->
                 IF a.latest[id] = tween THEN FALSE ELSE a.live[id]]]

\* tween.stop()
TweenStop(a, tween) ==
  LET called == [a EXCEPT !.stopped = @ \cup {tween}]
  IN IF a.tweenState[tween] = "pendingRemove" THEN called
     ELSE Dispatch(called, tween, "rejected")

\* cancelAnimation(id) that forgets the entry and leaves its tween running
CancelAnimationNoStop(a, id) ==
  [a EXCEPT !.activeAnimations = MapDelete(@, {id})]

\* cancelAnimation(id)
CancelAnimation(a, id) ==
  LET tween == MapGet(a.activeAnimations, id)
  IN IF tween = NoTween THEN a
     ELSE [TweenStop(a, tween) EXCEPT
             !.activeAnimations = MapDelete(@, {id})]

\* startAnimation(id, tween): cancelAnimation(id), then the listeners, the
\* Map entry and tween.play()
StartAnimation(a, id, tween) ==
  [CancelAnimation(a, id) EXCEPT
     !.promises = Append(@, [id |-> id, tween |-> tween,
                             state |-> "pending"]),
     !.activeAnimations = MapSet(@, id, tween),
     !.tweenState[tween] = "active",
     !.latest[id] = tween,
     !.live[id] = TRUE]

\* cancelAll(): forEach over the Map in insertion order, skipping the
\* entries a listener has deleted meanwhile, then Map.clear()
RECURSIVE CancelAllFrom(_, _)
CancelAllFrom(a, visited) ==
  LET rest == SelectSeq(a.activeAnimations,
                        LAMBDA entry : entry.id \notin visited)
  IN IF rest = <<>> THEN a
     ELSE CancelAllFrom(TweenStop(a, rest[1].tween),
                        visited \cup {rest[1].id})

CancelAll(a) ==
  [CancelAllFrom(a, {}) EXCEPT !.activeAnimations = <<>>]

\* clear()
Clear(a) == [a EXCEPT !.activeAnimations = <<>>]

\* isAnimationRunning(id)
IsAnimationRunning(a, id) == MapHas(a.activeAnimations, id)

\* a call or event begins: what the Map holds under id is remembered
Begin(a, op, id, tween) ==
  [a EXCEPT !.op = op, !.id = id, !.tween = tween,
            !.prev = MapGet(a.activeAnimations, id), !.stopped = {}]

AnimationManager_startAnimation(id, tween) ==
  /\ Len(anim.promises) < MaxStarts
  /\ anim' = StartAnimation(Begin(anim, "startAnimation", id, tween),
                            id, tween)
  /\ UNCHANGED <<selVars, dmVars, ltVars, scVars, scnVars, sgVars, btVars>>

AnimationManager_cancelAnimation(id) ==
  /\ anim' = CancelAnimation(Begin(anim, "cancelAnimation", id, NoTween), id)
  /\ UNCHANGED <<selVars, dmVars, ltVars, scVars, scnVars, sgVars, btVars>>

AnimationManager_cancelAll ==
  /\ anim' = CancelAll(Begin(anim, "cancelAll", None, NoTween))
  /\ UNCHANGED <<selVars, dmVars, ltVars, scVars, scnVars, sgVars, btVars>>

AnimationManager_clear ==
  /\ anim' = Clear(Begin(anim, "clear", None, NoTween))
  /\ UNCHANGED <<selVars, dmVars, ltVars, scVars, scnVars, sgVars, btVars>>

\* an active tween reaches its end: Phaser dispatches 'complete'
Tween_complete(tween) ==
  /\ anim.tweenState[tween] = "active"
  /\ anim' = Dispatch(Begin(anim, "complete", None, tween), tween,
                      "resolved")
  /\ UNCHANGED <<selVars, dmVars, ltVars, scVars, scnVars, sgVars, btVars>>

\* the owner of a running tween stops it: tween.stop() outside the manager
Tween_stop(tween) ==
  /\ anim.tweenState[tween] = "active"
  /\ anim' = TweenStop(Begin(anim, "stop", None, tween), tween)
  /\ UNCHANGED <<selVars, dmVars, ltVars, scVars, scnVars, sgVars, btVars>>

(***************************************************************************)
(* The manager singletons: DataManager, StateManager, AnimationManager     *)
(***************************************************************************)
ManagerClasses == {"DataManager", "StateManager", "AnimationManager"}

\* the objects of a class are numbered 1, 2, ... as they are built
NoInstance == 0
Thrown == -1

\* static instance = null, and no object built; call is the latest
\* getInstance() or `new`: its class, what it returned (an object, or
\* Thrown for 'already instantiated') and how many objects of the class
\* existed before it
NoManagers == [instance |-> [cls \in ManagerClasses |-> NoInstance],
               built |-> [cls \in ManagerClasses |-> 0],
               call |-> [op |-> None, cls |-> None, result |-> NoInstance,
                         builtBefore |-> 0]]

\* the constructor's guard: if (X.instance) throw
ConstructorThrows(m, cls) == m.instance[cls] # NoInstance

\* new X(): the guard, then the fields; X.instance is not assigned here
Construct(m, cls) ==
  IF ConstructorThrows(m, cls)
  THEN [m EXCEPT !.call.result = Thrown]
  ELSE [m EXCEPT !.built[cls] = @ + 1, !.call.result = m.built[cls] + 1]

\* X.getInstance()
GetInstance(m, cls) ==
  IF m.instance[cls] = NoInstance
  THEN LET made == Construct(m, cls)
       IN IF made.call.result = Thrown THEN made
          ELSE [made EXCEPT !.instance[cls] = made.call.result]
  ELSE [m EXCEPT !.call.result = m.instance[cls]]

BeginCall(m, op, cls) ==
  [m EXCEPT !.call = [op |-> op, cls |-> cls, result |-> NoInstance,
                      builtBefore |-> m.built[cls]]]

Manager_getInstance(cls) ==
  /\ managers.built[cls] < MaxBuilt
  /\ managers' = GetInstance(BeginCall(managers, "getInstance", cls), cls)
  /\ UNCHANGED <<selVars, dmVars, ltVars, scVars, scnVars, amVars, btVars>>

Manager_new(cls) ==
  /\ managers.built[cls] < MaxBuilt
  /\ managers' = Construct(BeginCall(managers, "new", cls), cls)
  /\ UNCHANGED <<selVars, dmVars, ltVars, scVars, scnVars, amVars, btVars>>

(***************************************************************************)
(* BootScene and DataManager.init                                          *)
(***************************************************************************)
CosmicObjectsFile == "cosmic-objects"
PhysicalConstantsFile == "physical-constants"
BootFiles == {CosmicObjectsFile, PhysicalConstantsFile}

\* a file the loader has not finished, one it could not load, and what a
\* loaded file can hold
Queued == [kind |-> "queued", pairs |-> <<>>]
Failed == [kind |-> "failed", pairs |-> <<>>]

CosmicContents ==
  {[kind |-> "valid", pairs |-> pairs] : pairs \in ScenePairLists}
    \cup {[kind |-> kind, pairs |-> <<>>] :
             kind \in {"noObjects", "noDistances", "badObject"}}

ConstantsContents ==
  {[kind |-> kind, pairs |-> <<>>] : kind \in {"valid", "noSpeedOfLight"}}

FileContents(file) ==
  IF file = CosmicObjectsFile THEN CosmicContents ELSE ConstantsContents

\* BootScene after preload(): create() has not run. initPromise is the
\* promise of DataManager.init: "none", "pending", "resolved" or
\* "rejected". log lists what has happened, in order.
NoBoot == [step |-> "preload", initPromise |-> "none",
           files |-> [file \in BootFiles |-> Queued],
           loaderComplete |-> FALSE, loadingError |-> FALSE,
           stateManagerReady |-> FALSE, menuStarted |-> FALSE,
           errorShown |-> FALSE, log |-> <<>>]

\* validateData() that accepts whatever the cache holds
ValidateDataThrowsNever(cosmic, constants) == FALSE

\* validateData(): throws unless the objects array, the distances array
\* and speedOfLight are there and every object has id, name and diameter
ValidateDataThrows(cosmic, constants) ==
  \/ cosmic.kind \in {"failed", "noObjects"}
  \/ cosmic.kind = "noDistances"
  \/ constants.kind \in {"failed", "noSpeedOfLight"}
  \/ cosmic.kind = "badObject"

\* buildIndexes(): objects.forEach / distances.forEach throw a TypeError
\* when the array is missing
BuildIndexesThrows(cosmic) ==
  cosmic.kind \in {"failed", "noObjects", "noDistances"}

\* resolve() / reject() of the promise loadAllData returns
SettleInit(b, outcome) ==
  IF b.initPromise = "pending" THEN [b EXCEPT !.initPromise = outcome] ELSE b

\* create(): DataManager.getInstance().init(this) -> loadAllData queues
\* the two files, registers its handlers and starts the loader
BootScene_create ==
  /\ boot.step = "preload"
  /\ boot' = [boot EXCEPT !.step = "loading", !.initPromise = "pending",
                          !.log = Append(@, "create")]
  /\ UNCHANGED <<selVars, dmVars, ltVars, scVars, scnVars, amVars, sgVars>>

\* the loader puts a file into the cache
Loader_fileLoaded(file, content) ==
  /\ boot.step # "preload"
  /\ boot.files[file] = Queued
  /\ boot' = [boot EXCEPT !.files[file] = content]
  /\ UNCHANGED <<selVars, dmVars, ltVars, scVars, scnVars, amVars, sgVars>>

\* the loader fails on a file: 'loaderror' -> BootScene's listener writes
\* the error into the loading text, loadAllData's rejects
Loader_fileFailed(file) ==
  /\ boot.step # "preload"
  /\ boot.files[file] = Queued
  /\ boot' = [SettleInit(boot, "rejected") EXCEPT
                !.files[file] = Failed, !.loadingError = TRUE]
  /\ UNCHANGED <<selVars, dmVars, ltVars, scVars, scnVars, amVars, sgVars>>

\* the loader is through with both files: 'complete' -> loadAllData's
\* listener takes the data from the cache, validateData, buildIndexes,
\* resolve; a throw on the way rejects
Loader_complete ==
  LET cosmic == boot.files[CosmicObjectsFile]
      constants == boot.files[PhysicalConstantsFile]
      hasDistances ==
        cosmic.kind \notin {"failed", "noObjects", "noDistances"}
      thrown == \/ ValidateDataThrows(cosmic, constants)
                \/ BuildIndexesThrows(cosmic)
  IN /\ boot.step # "preload"
     /\ ~boot.loaderComplete
     /\ \A file \in BootFiles : boot.files[file] # Queued
     /\ cosmicObjects' = IF hasDistances
                         THEN [present |-> TRUE,
                               distances |-> DistanceRecords(cosmic.pairs)]
                         ELSE cosmicObjects
     /\ distanceCache' = IF thrown THEN distanceCache
                         ELSE BuildDistanceCache(
                                DistanceRecords(cosmic.pairs))
     /\ boot' = [SettleInit(boot, IF thrown THEN "rejected" ELSE "resolved")
                 EXCEPT !.loaderComplete = TRUE,
                        !.log = IF thrown THEN @ ELSE Append(@, "indexed")]
     /\ UNCHANGED <<dmQuery, dmPrev, selVars, ltVars, scVars, scnVars,
                    amVars, sgVars>>

\* create() goes on after `await init`: StateManager.getInstance().init()
\* and the 500 ms delay, or the catch branch with showError
BootScene_resume ==
  /\ boot.step = "loading"
  /\ boot.initPromise \in {"resolved", "rejected"}
  /\ IF boot.initPromise = "resolved"
     THEN /\ boot' = [boot EXCEPT !.step = "delay",
                                  !.stateManagerReady = TRUE,
                                  !.log = Append(@, "StateManager.init")]
          /\ LET fresh == NewAddr(heap)
             IN Commit((fresh :> <<>>) @@ heap, osSelectedIds, fresh,
                       osHanded, smHanded)
          /\ scene' = [scene EXCEPT !.animationPhase = SelectionPhase]
     ELSE /\ boot' = [boot EXCEPT !.step = "error", !.errorShown = TRUE]
          /\ UNCHANGED <<heap, osSelectedIds, smSelectedObjects, osHanded,
                         smHanded, scene>>
  /\ UNCHANGED <<cardSelected, last, dmVars, ltVars, scVars, amVars, sgVars>>

\* the delay is over: this.scene.start('MenuScene')
BootScene_delayElapsed ==
  /\ boot.step = "delay"
  /\ boot' = [boot EXCEPT !.step = "menu", !.menuStarted = TRUE,
                          !.log = Append(@, "MenuScene")]
  /\ UNCHANGED <<selVars, dmVars, ltVars, scVars, scnVars, amVars, sgVars>>

(***************************************************************************)
(* Specifications                                                          *)
(***************************************************************************)
InitSel ==
  /\ heap = (1 :> <<>>) @@ (2 :> <<>>)
  /\ osSelectedIds = 1
  /\ smSelectedObjects = 2
  /\ osHanded = NullRef
  /\ smHanded = NullRef
  /\ cardSelected = {}
  /\ last = NoCall

\* DataManager constructor
InitDm ==
  /\ cosmicObjects = NoData
  /\ distanceCache = [k \in {} |-> NoDistance]
  /\ dmQuery = NoQuery
  /\ dmPrev = NoQuery

InitLt == lightTraveler = NoTraveler

InitSc == scaleCall = NoScaleCall

InitScn == scene = NoScene

InitAm == anim = NoAnim

InitSg == managers = NoManagers

InitBt == boot = NoBoot

Init ==
  /\ InitSel /\ InitDm /\ InitLt /\ InitSc /\ InitScn
  /\ InitAm /\ InitSg /\ InitBt

\* the selection driven by selectObject and clearSelection only
NextSel ==
  \/ \E id \in Ids : ObjectSelector_selectObject(id)
  \/ ObjectSelector_clearSelection
  \/ \E id \in Ids : StateManager_selectObject(id)
  \/ StateManager_clearSelection

SpecSel == Init /\ [][NextSel]_vars

\* one sequence of selectObject and clearSelection calls, each made on the
\* ObjectSelector and then on the StateManager
NextEq ==
  \/ Driver_selectorCall
  \/ Driver_stateManagerCall

SpecEq == Init /\ [][NextEq]_vars

\* ObjectSelector with a caller that reads the selection and changes the
\* list it was given
NextOS ==
  \/ \E id \in Ids : ObjectSelector_selectObject(id)
  \/ ObjectSelector_clearSelection
  \/ ObjectSelector_getSelectedIds
  \/ \E id \in Ids : Caller_push(osHanded, id)
  \/ Caller_pop(osHanded)

SpecOS == Init /\ [][NextOS]_vars

\* StateManager with a caller that reads the selection and changes the
\* list it was given
NextSM ==
  \/ \E id \in Ids : StateManager_selectObject(id)
  \/ StateManager_clearSelection
  \/ StateManager_getSelectedObjects
  \/ \E id \in Ids : Caller_push(smHanded, id)
  \/ Caller_pop(smHanded)

SpecSM == Init /\ [][NextSM]_vars

\* DataManager: the data file is loaded and indexed, distances are looked up
NextDm ==
  \/ \E pairs \in PairLists : DataManager_loadComplete(pairs)
  \/ \E fromId \in DmIds, toId \in DmIds : DataManager_getDistance(fromId, toId)

SpecDm == Init /\ [][NextDm]_vars

\* light-travel plans, one for each comparison
NextLt ==
  \E realDistance \in LightDistances, speedOfLight \in LightSpeeds :
    LightSpeedTraveler_constructor(realDistance, speedOfLight)

SpecLt == Init /\ [][NextLt]_vars

\* ScaleCalculator: its static functions, called with any arguments
NextSc ==
  \/ \E realDiameter \in ScDiameters, screenWidth \in ScWidths,
         referenceSize \in ScReferences :
       ScaleCalculator_calculateScreenDiameter(realDiameter, screenWidth,
                                               referenceSize)
  \/ \E realDistance \in ScDistances, maxRealDistance \in ScDistances,
         screenWidth \in ScWidths :
       ScaleCalculator_realToScreen(realDistance, maxRealDistance, screenWidth)
  \/ \E realDiameter \in ScPropDiameters, realDistance \in ScDistances,
         screenWidth \in ScWidths :
       ScaleCalculator_calculateProportionalSize(realDiameter, realDistance,
                                                 screenWidth)
  \/ \E meters \in FsLengths : ScaleCalculator_formatScale(meters)
  \/ \E seconds \in FtSeconds : ScaleCalculator_formatTime(seconds)

SpecSc == Init /\ [][NextSc]_vars

\* the comparison workflow: the data file is loaded at boot, the menu
\* starts the scene, the user clicks and the animations complete
NextScn ==
  \/ \E pairs \in ScenePairLists : DataManager_loadComplete(pairs)
  \/ MenuScene_startCosmicComparison
  \/ \E id \in Ids : Scene_cardClicked(id)
  \/ Scene_showDistanceClicked
  \/ DistanceAnimator_separationComplete
  \/ LightSpeedTraveler_travelComplete
  \/ Scene_newComparisonClicked
  \/ Scene_messageFaded
  \/ UIOverlayScene_returnToMenu

SpecScn == Init /\ [][NextScn]_vars

\* AnimationManager: its callers and the tweens' own events, in any order
NextAm ==
  \/ \E id \in AmIds, tween \in Tweens :
       AnimationManager_startAnimation(id, tween)
  \/ \E id \in AmIds : AnimationManager_cancelAnimation(id)
  \/ AnimationManager_cancelAll
  \/ AnimationManager_clear
  \/ \E tween \in Tweens : Tween_complete(tween)
  \/ \E tween \in Tweens : Tween_stop(tween)

SpecAm == Init /\ [][NextAm]_vars

\* the manager classes, used through getInstance() and through `new`
NextSg ==
  \/ \E cls \in ManagerClasses : Manager_getInstance(cls)
  \/ \E cls \in ManagerClasses : Manager_new(cls)

SpecSg == Init /\ [][NextSg]_vars

\* the boot: create(), the loader's events, the rest of create()
NextBt ==
  \/ BootScene_create
  \/ \E file \in BootFiles :
       \E content \in FileContents(file) : Loader_fileLoaded(file, content)
  \/ \E file \in BootFiles : Loader_fileFailed(file)
  \/ Loader_complete
  \/ BootScene_resume
  \/ BootScene_delayElapsed

SpecBt == Init /\ [][NextBt]_vars

\* create() is an async function: once the promise it awaits is settled,
\* the job queue runs the rest of it
SpecBtLive == SpecBt /\ WF_vars(BootScene_resume)

\* every component at once; each property is checked under the
\* specification of the component it is about
Next ==
  \/ NextOS \/ NextSM \/ NextDm \/ NextLt \/ NextSc \/ NextScn
  \/ NextAm \/ NextSg \/ NextBt

Spec == Init /\ [][Next]_vars

(***************************************************************************)
(* The selection: C1 - C6                                                  *)
(***************************************************************************)
OSSelected == last.obj = "ObjectSelector" /\ last.op = "selectObject"
OSCleared == last.obj = "ObjectSelector" /\ last.op = "clearSelection"
Range(seq) == {seq[i] : i \in 1..Len(seq)}

\* C1: the number of selected ids never exceeds MAX_SELECTIONS, in
\* ObjectSelector.selectedIds and in StateManager's selectedObjects, after
\* any sequence of selectObject and clearSelection calls.
C1_LengthNeverExceedsCapacity ==
  /\ Len(osIds) <= MAX_SELECTIONS
  /\ Len(smIds) <= MAX_SELECTIONS

\* both selections are full and the last call was made on a full selection
C1_Witness ==
  /\ Len(osIds) = MAX_SELECTIONS
  /\ Len(smIds) = MAX_SELECTIONS
  /\ last.op = "selectObject"
  /\ Len(last.before) = MAX_SELECTIONS

\* C2: selectObject on a full selection removes the id at index 0 and appends
\* the new id at the end (below capacity it only appends), so the ids stay
\* oldest-first: select(A), select(B), select(C) leaves [B, C].
C2_EvictsOldestAppendsNewest ==
  OSSelected =>
    /\ Len(last.before) >= MAX_SELECTIONS =>
         /\ osIds = Append(Tail(last.before), last.arg)
         /\ last.removed = last.before[1]
    /\ Len(last.before) < MAX_SELECTIONS => osIds = Append(last.before, last.arg)

\* select(A), select(B), select(C) has left [B, C], A evicted
C2_Witness ==
  /\ OSSelected
  /\ last.before = <<"A", "B">>
  /\ last.arg = "C"
  /\ osIds = <<"B", "C">>

C4_NoDeduplication ==
  (OSSelected /\ last.arg \in Range(last.before)) =>
    /\ osIds[Len(osIds)] = last.arg
    /\ Len(osIds) = IF Len(last.before) >= MAX_SELECTIONS
                    THEN Len(last.before) ELSE Len(last.before) + 1
    /\ \A i \in 1..(Len(osIds) - 1) :
         osIds[i] = last.before[i + Len(last.before) + 1 - Len(osIds)]

\* select(A), select(A) has left [A, A]
C4_Witness ==
  /\ OSSelected
  /\ last.before = <<"A">>
  /\ last.arg = "A"
  /\ osIds = <<"A", "A">>

\* C5: clearSelection empties the selection from any state, and a second
\* clearSelection right after it leaves the same empty selection.
C5_ClearEmptiesAndIsIdempotent ==
  OSCleared =>
    /\ osIds = <<>>
    /\ last.prevOp = "clearSelection" => osIds = last.before

\* clearSelection called twice in a row
C5_Witness ==
  /\ OSCleared
  /\ last.prevOp = "clearSelection"
  /\ osIds = <<>>

\* clearSelection called on a full selection
C5_WitnessFull == OSCleared /\ Len(last.before) = MAX_SELECTIONS

\* C6: a list handed to a caller (by getSelectedIds, getSelectedObjects or
\* as the 'selectionComplete' payload) is a copy: a caller changing it does
\* not change the selection, and selectObject / clearSelection do not
\* change a list the caller still holds.
C6_HandedListsAreCopies ==
  [][ /\ last'.obj = "caller" => (osIds' = osIds /\ smIds' = smIds)
      /\ (last'.obj = "ObjectSelector" /\ last'.heldSame
            /\ last'.op \in {"selectObject", "clearSelection"})
           => Held(heap', osHanded') = last'.heldBefore
      /\ (last'.obj = "StateManager" /\ last'.heldSame
            /\ last'.op \in {"selectObject", "clearSelection"})
           => Held(heap', smHanded') = last'.heldBefore ]_vars

(***************************************************************************)
(* The distance index: C7, C8                                              *)
(***************************************************************************)
\* the data file holds at most one record per unordered pair of ids, so no
\* pair is stored in both directions
OneRecordPerPair(distances) ==
  \A i, j \in 1..Len(distances) :
    i # j => {distances[i].from, distances[i].to}
               # {distances[j].from, distances[j].to}

Joins(rec, a, b) == {rec.from, rec.to} = {a, b}

\* C7: for an index built from records that store each pair in one
\* direction, getDistance(a, b) and getDistance(b, a) return the identical
\* result (the same record, or both not found), for every pair of ids.
C7_LookupIsSymmetric ==
  (/\ OneRecordPerPair(cosmicObjects.distances)
   /\ dmQuery.indexed
   /\ dmPrev.indexed
   /\ dmPrev.fromId = dmQuery.toId
   /\ dmPrev.toId = dmQuery.fromId)
  => dmQuery.result = dmPrev.result

\* C8: after buildIndexes exactly the supplied records are retrievable:
\* every record is returned for its pair, nothing but a supplied record is
\* ever returned, and a pair without a record gives not-found.
C8_ExactlySuppliedRecordsRetrievable ==
  (/\ OneRecordPerPair(cosmicObjects.distances)
   /\ dmQuery.indexed)
  => LET recs == cosmicObjects.distances
         q == dmQuery
     IN /\ \A i \in 1..Len(recs) :
             (recs[i].from = q.fromId /\ recs[i].to = q.toId)
               => q.result = recs[i]
        /\ q.result # NoDistance => q.result \in Range(recs)
        /\ (\A i \in 1..Len(recs) : ~Joins(recs[i], q.fromId, q.toId))
             => q.result = NoDistance

(***************************************************************************)
(* The light-travel plan: C9, C10                                          *)
(***************************************************************************)
Cap == Frac(LIGHT_MAX, 1)
One == Frac(1, 1)

\* C9: every plan a LightSpeedTraveler computes has animationDuration <=
\* LIGHT_MAX, speedMultiplier >= 1, and speedMultiplier = 1 exactly when
\* isTimeLapsed is false.
C9_PlanWithinCap ==
  lightTraveler.created =>
    /\ JsLe(lightTraveler.animationDuration, Cap)
    /\ JsGe(lightTraveler.speedMultiplier, One)
    /\ JsEq(lightTraveler.speedMultiplier, One) <=> ~lightTraveler.isTimeLapsed

\* about(x, lo, hi, per): lo/per <= x < hi/per, for a fraction x
Within(x, lo, hi, per) ==
  /\ x.k = "fin"
  /\ lo * (x.d \div per) <= x.n
  /\ x.n < hi * (x.d \div per)

\* C10: for d > 0 and c > 0, with realTimeMs = (d / c) * 1000, the plan has
\* animationDuration = min(realTimeMs, cap), isTimeLapsed exactly when
\* realTimeMs > cap (a travel time equal to the cap plays at real speed),
\* and speedMultiplier = realTimeMs / cap when time-lapsed, 1 otherwise.
\* Earth-Moon plays at real speed in about 1282 ms; Earth-Sun is
\* time-lapsed to 10000 ms, about 49.9 times faster.
C10_PlanFormula ==
  LET lt == lightTraveler
      d == lt.realDistance
      c == lt.speedOfLight
      over == d * 1000 > LIGHT_MAX * c
  IN (lt.created /\ d > 0 /\ c > 0) =>
       /\ JsEq(lt.animationDuration,
               IF over THEN Cap ELSE Frac(d * 1000, c))
       /\ lt.isTimeLapsed <=> over
       /\ JsEq(lt.speedMultiplier,
               IF over THEN Frac(d * 1000, c * LIGHT_MAX) ELSE One)
       /\ (d = EarthMoon /\ c = SpeedOfLight) =>
            /\ ~lt.isTimeLapsed
            /\ lt.animationDuration.n \div lt.animationDuration.d = 1282
       /\ (d = EarthSun /\ c = SpeedOfLight) =>
            /\ lt.isTimeLapsed
            /\ JsEq(lt.animationDuration, Cap)
            /\ Within(lt.speedMultiplier, 4985, 4995, 100)

\* the Earth-Sun plan: time-lapsed
C10_Witness ==
  /\ lightTraveler.created
  /\ lightTraveler.realDistance = EarthSun
  /\ lightTraveler.speedOfLight = SpeedOfLight
  /\ lightTraveler.isTimeLapsed

\* a travel time of exactly the cap: played at real speed
C10_WitnessAtCap ==
  /\ lightTraveler.created
  /\ lightTraveler.realDistance = 29980
  /\ lightTraveler.speedOfLight = SpeedOfLight
  /\ ~lightTraveler.isTimeLapsed

\* C11 as stated: a LightSpeedTraveler given a distance <= 0 or a speed of
\* light <= 0 raises an error: its constructor never completes with a plan
\* for such input.
C11_InvalidInputRaises ==
  lightTraveler.created =>
    /\ lightTraveler.realDistance > 0
    /\ lightTraveler.speedOfLight > 0

(***************************************************************************)
(* Sizes and distances on screen: C12 - C16                                *)
(***************************************************************************)
ScCalled(fn) == scaleCall.fn = fn
Arg(i) == scaleCall.args[i]
Pos(x) == x.k = "fin" /\ x.n > 0
NonNeg(x) == x.k = "fin" /\ x.n >= 0
IsExactly(x, i) == x.k = "fin" /\ x.n = i * x.d

\* screenWidth * MAX_SCREEN_RATIO for a finite width, computed apart from
\* the model of the function
MaxFor(screenWidth) == Frac(screenWidth.n * 4, screenWidth.d * 10)

\* C12 as stated: for screenWidth > 0, referenceSize > 0 and realDiameter >=
\* 0 the result r of calculateScreenDiameter has MIN_SIZE <= r <=
\* screenWidth * MAX_SCREEN_RATIO; a zero diameter gives MIN_SIZE, a
\* diameter of at least the reference gives screenWidth * MAX_SCREEN_RATIO.
C12_ScreenDiameterWithinBounds ==
  (/\ ScCalled("calculateScreenDiameter")
   /\ NonNeg(Arg(1)) /\ Pos(Arg(2)) /\ Pos(Arg(3)))
  => /\ JsGe(scaleCall.num, Num(MIN_SIZE))
     /\ JsLe(scaleCall.num, MaxFor(Arg(2)))
     /\ Arg(1).n = 0 => IsExactly(scaleCall.num, MIN_SIZE)
     /\ JsGe(Arg(1), Arg(3)) => JsEq(scaleCall.num, MaxFor(Arg(2)))

\* C12 as amended: for screenWidth > 0, referenceSize > 0 and realDiameter
\* >= 0 the result r is at least MIN_SIZE, and a zero diameter gives exactly
\* MIN_SIZE. When screenWidth * MAX_SCREEN_RATIO >= MIN_SIZE (a width of at
\* least 25) r is also at most screenWidth * MAX_SCREEN_RATIO, and exactly
\* that for a diameter of at least the reference; on a narrower screen the
\* lower bound wins and r is MIN_SIZE, above screenWidth * MAX_SCREEN_RATIO.
C12_ScreenDiameterClampedMinWins ==
  (/\ ScCalled("calculateScreenDiameter")
   /\ NonNeg(Arg(1)) /\ Pos(Arg(2)) /\ Pos(Arg(3)))
  => /\ JsGe(scaleCall.num, Num(MIN_SIZE))
     /\ Arg(1).n = 0 => IsExactly(scaleCall.num, MIN_SIZE)
     /\ JsGe(MaxFor(Arg(2)), Num(MIN_SIZE)) =>
          /\ JsLe(scaleCall.num, MaxFor(Arg(2)))
          /\ JsGe(Arg(1), Arg(3)) => JsEq(scaleCall.num, MaxFor(Arg(2)))
     /\ JsLt(MaxFor(Arg(2)), Num(MIN_SIZE)) =>
          IsExactly(scaleCall.num, MIN_SIZE)

\* an object twice the reference on a 20-pixel screen: 10 pixels, not 8
C12_Witness ==
  /\ ScCalled("calculateScreenDiameter")
  /\ scaleCall.args = <<Num(2000), Num(20), Num(1000)>>
  /\ IsExactly(scaleCall.num, MIN_SIZE)

\* an object twice the reference on a 1000-pixel screen: clamped to 400
C12_WitnessWide ==
  /\ ScCalled("calculateScreenDiameter")
  /\ scaleCall.args = <<Num(2000), Num(1000), Num(1000)>>
  /\ IsExactly(scaleCall.num, 400)

\* C13: realToScreen(d, d, w) = w for every (finite) d > 0 and w > 0: a
\* distance scaled against itself as the maximum takes the full width.
C13_SelfMaxSaturates ==
  (/\ ScCalled("realToScreen")
   /\ Arg(1) = Arg(2)
   /\ Pos(Arg(1))
   /\ JsGt(Arg(3), Num(0)))
  => JsEq(scaleCall.num, Arg(3))

\* realToScreen(15000, 15000, 1280) = 1280
C13_Witness ==
  /\ ScCalled("realToScreen")
  /\ scaleCall.args = <<Num(15000), Num(15000), Num(1280)>>
  /\ IsExactly(scaleCall.num, 1280)

\* C14: realToScreen(x, m, w) is exactly 0 whenever x <= 0 or m <= 0, for
\* any w (NaN and Infinity included).
C14_DegenerateIsZero ==
  (/\ ScCalled("realToScreen")
   /\ (JsLe(Arg(1), Num(0)) \/ JsLe(Arg(2), Num(0))))
  => IsExactly(scaleCall.num, 0)

\* a positive distance against a zero maximum, with a width that is NaN
C14_Witness ==
  /\ ScCalled("realToScreen")
  /\ scaleCall.args = <<Num(10), Num(0), NaN>>
  /\ IsExactly(scaleCall.num, 0)

\* C15: calculateProportionalSize never returns a value below 1: exactly 1
\* when realDistance <= 0 or realDiameter <= 0, at least 1 for positive
\* inputs.
C15_ProportionalSizeAtLeastOne ==
  ScCalled("calculateProportionalSize") =>
    /\ ~JsLt(scaleCall.num, Num(1))
    /\ (JsLe(Arg(2), Num(0)) \/ JsLe(Arg(1), Num(0))) =>
         IsExactly(scaleCall.num, 1)
    /\ (Pos(Arg(1)) /\ Pos(Arg(2)) /\ Pos(Arg(3))) =>
         JsGe(scaleCall.num, Num(1))

\* a diameter of 1 at a distance of 15000 on 1280 pixels: 0.06, floored to 1
C15_Witness ==
  /\ ScCalled("calculateProportionalSize")
  /\ scaleCall.args = <<Num(1), Num(15000), Num(1280)>>
  /\ IsExactly(scaleCall.num, 1)

\* (realDiameter / realDistance) * 0.7 * screenWidth for finite inputs
LinearSize(realDiameter, realDistance, screenWidth) ==
  Frac(realDiameter.n * realDistance.d * 7 * screenWidth.n,
       realDiameter.d * realDistance.n * 10 * screenWidth.d)

\* C16: for positive inputs calculateProportionalSize(realDiameter,
\* realDistance, screenWidth) = max(1, (realDiameter / realDistance) * 0.7 *
\* screenWidth), with no upper clamp; above the floor, twice the diameter
\* gives twice the size.
C16_ProportionalSizeIsLinear ==
  (/\ ScCalled("calculateProportionalSize")
   /\ Pos(Arg(1)) /\ Pos(Arg(2)) /\ Pos(Arg(3)))
  => LET linear == LinearSize(Arg(1), Arg(2), Arg(3))
     IN /\ JsEq(scaleCall.num,
                IF JsGe(linear, Num(1)) THEN linear ELSE Num(1))
        /\ JsGt(scaleCall.num, Num(1)) =>
             JsEq(CalculateProportionalSize(JsMul(Arg(1), Num(2)), Arg(2),
                                            Arg(3)),
                  JsMul(scaleCall.num, Num(2)))

\* a diameter of 2 at a distance of 10 on 1280 pixels: 179.2, well above the
\* 40% of the screen that calculateScreenDiameter would allow on 1280 * 0.7
C16_Witness ==
  /\ ScCalled("calculateProportionalSize")
  /\ scaleCall.args = <<Num(2), Num(10), Num(1280)>>
  /\ JsEq(scaleCall.num, Frac(1792, 10))

(***************************************************************************)
(* Formatting: C17 - C19                                                   *)
(***************************************************************************)
IndexOf(chars, c) ==
  IF \E i \in 1..Len(chars) : chars[i] = c
  THEN CHOOSE i \in 1..Len(chars) :
         chars[i] = c /\ \A j \in 1..(i - 1) : chars[j] # c
  ELSE 0

Contains(chars, sub) ==
  \E i \in 0..(Len(chars) - Len(sub)) :
    \A j \in 1..Len(sub) : chars[i + j] = sub[j]

EndsWith(chars, sub) ==
  /\ Len(chars) >= Len(sub)
  /\ SubSeq(chars, Len(chars) - Len(sub) + 1, Len(chars)) = sub

\* a string of digits read as a number
RECURSIVE ParseNat(_)
ParseNat(chars) ==
  IF chars = <<>> THEN 0
  ELSE ParseNat(SubSeq(chars, 1, Len(chars) - 1)) * 10
         + DigitOf(chars[Len(chars)])

AllDigits(chars) == chars # <<>> /\ \A i \in 1..Len(chars) : IsDigit(chars[i])

ParseInt(chars) ==
  IF chars # <<>> /\ chars[1] = "-" THEN 0 - ParseNat(Tail(chars))
  ELSE ParseNat(chars)

\* "-12.34" read back: its sign, the number of decimals, and the value
\* times 10^decimals
ParseFixed(chars) ==
  LET neg == chars # <<>> /\ chars[1] = "-"
      body == IF neg THEN Tail(chars) ELSE chars
      dot == IndexOf(body, ".")
      whole == SubSeq(body, 1, dot - 1)
      frac == SubSeq(body, dot + 1, Len(body))
  IN [ok |-> dot > 0 /\ AllDigits(whole) /\ AllDigits(frac),
      neg |-> neg,
      places |-> Len(frac),
      scaled |-> IF dot > 0 /\ AllDigits(whole) /\ AllDigits(frac)
                 THEN ParseNat(whole \o frac) ELSE 0]

\* "<sign><mantissa> × 10^<exponent> m" read back
ParseScale(chars) ==
  LET times == IndexOf(chars, "×")
      caret == IndexOf(chars, "^")
  IN [ok |-> times > 2 /\ caret = times + 4 /\ EndsWith(chars, MetersSuffix),
      mantissa |-> ParseFixed(SubSeq(chars, 1, times - 2)),
      exponent |-> ParseInt(SubSeq(chars, caret + 1, Len(chars) - 2))]

\* |v| < 1e-100 for a length v = sign * digits * 10^exp10
BelowDisplay(meters) ==
  LET room == (0 - 100) - meters.exp10
  IN IF room <= 0 THEN FALSE
     ELSE IF room > 9 THEN TRUE
     ELSE meters.digits < Pow(10, room)

\* formatScale was called with a length it prints in scientific notation
ScScientific ==
  /\ ScCalled("formatScale")
  /\ Arg(1).digits # 0
  /\ ~BelowDisplay(Arg(1))

\* C17 as stated: for |v| = m * 10^e with 1 <= m < 10, formatScale(v) prints
\* the exponent e and a two-decimal mantissa in [1.00, 10.00): read back,
\* the exponent is e and the mantissa is m to two decimals.
C17_MantissaNormalizedRoundTrip ==
  ScScientific =>
    LET v == Arg(1)
        read == ParseScale(scaleCall.text)
    IN /\ read.ok /\ read.mantissa.ok
       /\ read.mantissa.places = 2
       /\ read.mantissa.scaled >= 100
       /\ read.mantissa.scaled < 1000
       /\ \E k \in 0..9 :
            /\ Pow(10, k) <= v.digits
            /\ v.digits < Pow(10, k + 1)
            /\ read.exponent = k + v.exp10
            /\ 2 * Abs(read.mantissa.scaled * Pow(10, k) - 100 * v.digits)
                 <= Pow(10, k)

\* C18: formatScale applies its special cases in order: 0 gives "0 m";
\* otherwise |value| < 1e-100 gives "~0 m" for either sign; otherwise the
\* text is in scientific notation, contains "10^", and starts with "-"
\* exactly when the value is negative.
C18_SpecialCasesInPriorityOrder ==
  ScCalled("formatScale") =>
    LET v == Arg(1)
        text == scaleCall.text
    IN /\ v.digits = 0 => text = <<"0", " ", "m">>
       /\ (v.digits # 0 /\ BelowDisplay(v)) => text = <<"~", "0", " ", "m">>
       /\ (v.digits # 0 /\ ~BelowDisplay(v)) =>
            /\ Contains(text, <<"1", "0", "^">>)
            /\ text[1] = "-" <=> v.sign < 0
            /\ ParseScale(text).ok
       /\ v = Dec(-1, 15, 2) =>
            text = <<"-", "1", ".", "5", "0", " ", "×", " ", "1", "0", "^",
                     "3", " ", "m">>

\* formatScale(-1e-150) = "~0 m"
C18_Witness ==
  /\ ScCalled("formatScale")
  /\ scaleCall.args = <<Dec(-1, 1, -150)>>
  /\ scaleCall.text = <<"~", "0", " ", "m">>

\* formatScale(-1500) = "-1.50 × 10^3 m"
C18_WitnessNegative ==
  /\ ScCalled("formatScale")
  /\ scaleCall.args = <<Dec(-1, 15, 2)>>
  /\ scaleCall.text[1] = "-"

\* the unit formatTime must choose for a finite number of seconds
UnitFor(seconds) ==
  IF seconds.n < 60 * seconds.d
  THEN [unit |-> <<" ", "s", "e", "c", "o", "n", "d", "s">>, per |-> 1,
        places |-> 3]
  ELSE IF seconds.n < 3600 * seconds.d
  THEN [unit |-> <<" ", "m", "i", "n", "u", "t", "e", "s">>, per |-> 60,
        places |-> 2]
  ELSE IF seconds.n < 86400 * seconds.d
  THEN [unit |-> <<" ", "h", "o", "u", "r", "s">>, per |-> 3600, places |-> 2]
  ELSE IF seconds.n < 31536000 * seconds.d
  THEN [unit |-> <<" ", "d", "a", "y", "s">>, per |-> 86400, places |-> 2]
  ELSE [unit |-> <<" ", "y", "e", "a", "r", "s">>, per |-> 31536000,
        places |-> 2]

C19_WitnessMinute ==
  /\ ScCalled("formatTime")
  /\ scaleCall.args = <<Num(60)>>
  /\ scaleCall.text = <<"1", ".", "0", "0", " ", "m", "i", "n", "u", "t", "e",
                        "s">>

(***************************************************************************)
(* The comparison workflow: C20                                            *)
(***************************************************************************)
\* selection -> scaleDisplay -> distanceAnimation -> lightTravel -> selection
PhaseCycle == {<<"selection", "scaleDisplay">>,
               <<"scaleDisplay", "distanceAnimation">>,
               <<"distanceAnimation", "lightTravel">>,
               <<"lightTravel", "selection">>}

\* the latest setComparisonPhase call changed the phase
PhaseChanged ==
  scene.oldPhase # None /\ scene.oldPhase # scene.animationPhase

C20_WitnessNoDistance ==
  /\ scene.handler = "reset"
  /\ scene.oldPhase = "distanceAnimation"
  /\ scene.animationPhase = "selection"

\* the scene left for the menu in scaleDisplay and started again
C20_WitnessRestart ==
  /\ scene.handler = "create"
  /\ scene.oldPhase = "scaleDisplay"
  /\ scene.animationPhase = "selection"

(***************************************************************************)
(* The comparison without a distance record: C21                           *)
(***************************************************************************)
\* the scene holds a selected pair and getDistance returns null for it
LookupMisses(sc) ==
  sc.selectedIds # NullIds /\ SceneDistance(sc) = NoDistance

\* C21: the lightTravel phase is entered and a LightSpeedTraveler created
\* only for a selected pair for which getDistance returns a record. When the
\* lookup of enterDistanceAnimationPhase misses, the no-distance message and
\* the New Comparison button are shown, and for as long as the scene holds
\* that pair neither a DistanceAnimator nor a LightSpeedTraveler exists and
\* the phase is never lightTravel.
C21_LightTravelOnlyWithDistance ==
  /\ [](LookupMisses(scene) =>
          /\ scene.distanceAnimator = "null"
          /\ scene.traveler = "null"
          /\ lightTraveler = NoTraveler
          /\ scene.animationPhase # LightTravelPhase)
  /\ [](scene.animationPhase = LightTravelPhase =>
          /\ scene.selectedIds # NullIds
          /\ SceneDistance(scene) # NoDistance)
  /\ [](scene.traveler # "null" \/ lightTraveler # NoTraveler =>
          /\ scene.selectedIds # NullIds
          /\ SceneDistance(scene) # NoDistance)
  /\ [][/\ scene'.handler = "enterDistanceAnimationPhase"
         /\ scene.distanceButton
         /\ LookupMisses(scene)
         => /\ scene'.noDistanceMessage
            /\ scene'.newComparisonButton
            /\ scene'.distanceAnimator = "null"
            /\ scene'.traveler = "null"
            /\ scene'.animationPhase = DistanceAnimationPhase]_vars

\* Show Distance was clicked for a pair without a record: the message and
\* the New Comparison button are up and nothing animates
C21_Witness ==
  /\ scene.handler = "enterDistanceAnimationPhase"
  /\ LookupMisses(scene)
  /\ scene.noDistanceMessage
  /\ scene.newComparisonButton
  /\ scene.distanceAnimator = "null"

\* a pair with a record has reached lightTravel and its traveler animates
C21_WitnessTravel ==
  /\ scene.animationPhase = LightTravelPhase
  /\ SceneDistance(scene) # NoDistance
  /\ scene.traveler = "animating"
  /\ lightTraveler # NoTraveler

(***************************************************************************)
(* AnimationManager: C22, C23, C25                                         *)
(***************************************************************************)
\* the Map holds at most one entry for each id
OneEntryPerId(map) ==
  \A i \in DOMAIN map, j \in DOMAIN map : map[i].id = map[j].id => i = j

\* C22: startAnimation(id, tween) first cancels the animation registered
\* under id, if there is one: stop() is called on its tween, which is left
\* pending removal unless it is the tween being started. At most one tween
\* is registered per id at any time, and after the call the tween
\* registered under id is the new one.
C22_StartReplacesRegistration ==
  /\ OneEntryPerId(anim.activeAnimations)
  /\ anim.op = "startAnimation" =>
       /\ MapGet(anim.activeAnimations, anim.id) = anim.tween
       /\ anim.tweenState[anim.tween] = "active"
       /\ anim.prev # NoTween =>
            /\ anim.prev \in anim.stopped
            /\ anim.prev # anim.tween =>
                 anim.tweenState[anim.prev] = "pendingRemove"

\* a tween was started under an id that held another tween
C22_Witness ==
  /\ anim.op = "startAnimation"
  /\ anim.prev # NoTween
  /\ anim.prev # anim.tween
  /\ MapGet(anim.activeAnimations, anim.id) = anim.tween
  /\ anim.tweenState[anim.prev] = "pendingRemove"

\* the step is the 'complete' event of the tween
Completes(tween) == anim'.op = "complete" /\ anim'.tween = tween

\* C23: the promise startAnimation returned resolves when its tween
\* completes and rejects when stop() is called on its tween, be it by
\* cancelAnimation, by cancelAll, by a startAnimation under the same id or
\* by the tween's owner. A settled promise never changes again, so it is
\* settled at most once and never both resolved and rejected.
C23_PromiseSettlesOnce ==
  [][\A p \in DOMAIN anim.promises :
       LET before == anim.promises[p].state
           after == anim'.promises[p].state
           tween == anim.promises[p].tween
       IN /\ before # "pending" => after = before
          /\ before = "pending" /\ Completes(tween) => after = "resolved"
          /\ before = "pending" /\ tween \in anim'.stopped =>
               after = "rejected"
          /\ before = "pending" /\ after = "resolved" => Completes(tween)
          /\ before = "pending" /\ after = "rejected" =>
               tween \in anim'.stopped
          /\ /\ anim'.op \in {"cancelAnimation", "startAnimation"}
             /\ anim'.prev = tween
             => after \in {"resolved", "rejected"}]_vars

\* a restart under the same id has rejected the promise of the tween it
\* replaced, and another promise is resolved
C23_Witness ==
  /\ anim.op = "startAnimation"
  /\ \E p \in DOMAIN anim.promises :
       /\ anim.promises[p].tween = anim.prev
       /\ anim.promises[p].id = anim.id
       /\ anim.promises[p].state = "rejected"
  /\ \E q \in DOMAIN anim.promises : anim.promises[q].state = "resolved"

\* cancelAll() has rejected two promises
C23_WitnessCancelAll ==
  /\ anim.op = "cancelAll"
  /\ Cardinality(anim.stopped) = 2
  /\ \A p \in DOMAIN anim.promises : anim.promises[p].state = "rejected"
  /\ Len(anim.promises) >= 2

\* C25: under any interleaving of startAnimation, cancelAnimation,
\* cancelAll, clear and the tweens' complete/stop events,
\* isAnimationRunning(id) is true exactly while the tween most recently
\* started under id has neither completed nor been stopped (so an event of
\* an older tween never removes the registration of a newer one).
C25_RunningIffLatestTweenLive ==
  \A id \in AmIds :
    IsAnimationRunning(anim, id) <=>
      (anim.latest[id] # NoTween /\ anim.live[id])

(***************************************************************************)
(* The selection events: C24                                               *)
(***************************************************************************)
\* the latest call is ObjectSelector.selectObject
OSSelectCalled == last.obj = "ObjectSelector" /\ last.op = "selectObject"

\* the events the latest call emitted
Emitted(event) == \E i \in DOMAIN last.events : last.events[i] = event

\* C24: selectObject emits 'selectionComplete', carrying the selected ids
\* oldest first, exactly when the selection holds MAX_SELECTIONS ids after
\* the call. With capacity 2 the first selection after a clear emits only
\* 'objectSelected'; the second and every later call emits
\* 'selectionComplete' again, until clearSelection is called.
C24_SelectionCompleteWhenFull ==
  OSSelectCalled =>
    /\ Emitted("objectSelected")
    /\ Emitted("selectionComplete") <=> Len(osIds) = MAX_SELECTIONS
    /\ Emitted("selectionComplete") =>
         /\ last.events = <<"objectSelected", "selectionComplete">>
         /\ Held(heap, osHanded) = osIds
         /\ osIds = <<last.before[Len(last.before)], last.arg>>
    /\ last.before = <<>> => last.events = <<"objectSelected">>
    /\ last.prevOp = "clearSelection" => last.events = <<"objectSelected">>
    /\ last.before # <<>> => Emitted("selectionComplete")

\* a third selection in a row: the selection was full before the call and
\* 'selectionComplete' is emitted again with the two newest ids
C24_Witness ==
  /\ OSSelectCalled
  /\ Len(last.before) = MAX_SELECTIONS
  /\ Emitted("selectionComplete")
  /\ Held(heap, osHanded) = <<last.before[2], last.arg>>

\* the first selection after a clear
C24_WitnessFirst ==
  /\ OSSelectCalled
  /\ last.prevOp = "clearSelection"
  /\ last.events = <<"objectSelected">>

(***************************************************************************)
(* The singletons: C26                                                     *)
(***************************************************************************)
\* C26: at most one instance of each manager ever exists: in whatever
\* order getInstance() and the constructor are called, a second
\* construction throws 'already instantiated' and getInstance() returns
\* the one existing instance.
C26_AtMostOneInstance ==
  /\ \A cls \in ManagerClasses : managers.built[cls] <= 1
  /\ managers.call.op = "new" /\ managers.call.builtBefore >= 1 =>
       managers.call.result = Thrown
  /\ managers.call.op = "getInstance" =>
       /\ managers.call.result = managers.instance[managers.call.cls]
       /\ managers.call.builtBefore >= 1 => managers.call.result = 1

(***************************************************************************)
(* The two selections side by side: C27                                    *)
(***************************************************************************)
\* C27: driven by the same sequence of selectObject(id) and
\* clearSelection() calls, ObjectSelector.selectedIds and StateManager's
\* selectedObjects hold the same ids in the same order after every step,
\* and both emit 'objectSelected', 'selectionComplete' and
\* 'selectionCleared' on the same steps.
C27_SelectionsEquivalent ==
  /\ [](last.obj # "ObjectSelector" => osIds = smIds)
  /\ [][last.obj = "ObjectSelector" /\ last'.obj = "StateManager" =>
          /\ last'.op = last.op
          /\ last'.arg = last.arg
          /\ last'.before = last.before
          /\ last'.removed = last.removed
          /\ last'.events = last.events
          /\ osIds' = smIds']_vars

\* both have evicted their oldest id for a third selection and emitted
\* 'selectionComplete'
C27_Witness ==
  /\ last.obj = "StateManager"
  /\ last.op = "selectObject"
  /\ Len(last.before) = MAX_SELECTIONS
  /\ last.removed = last.before[1]
  /\ last.events = <<"objectSelected", "selectionComplete">>
  /\ osIds = smIds
  /\ smIds = <<last.before[2], last.arg>>

(***************************************************************************)
(* The index keys: C28                                                     *)
(***************************************************************************)
\* C28: records of different unordered pairs never share an index key:
\* building the index from records with pairwise different {from, to}
\* pairs never overwrites one record with another, and any record
\* getDistance(a, b) returns has the endpoints {from, to} = {a, b}, for
\* arbitrary string ids, ids that contain '-' included.
C28_NoKeySharedByDifferentPairs ==
  (cosmicObjects.present /\ OneRecordPerPair(cosmicObjects.distances))
  => LET recs == cosmicObjects.distances
     IN /\ \A i, j \in 1..Len(recs) :
             i # j => DistKey(recs[i].from, recs[i].to)
                        # DistKey(recs[j].from, recs[j].to)
        /\ \A i \in 1..Len(recs) :
             distanceCache[DistKey(recs[i].from, recs[i].to)] = recs[i]
        /\ (dmQuery.indexed /\ dmQuery.result # NoDistance) =>
             Joins(dmQuery.result, dmQuery.fromId, dmQuery.toId)

(***************************************************************************)
(* The boot: C29                                                           *)
(***************************************************************************)
\* the file did not load, or what it holds is not valid
BadFile(file) == boot.files[file].kind # "valid"

\* the index DataManager holds is the one of the loaded cosmic-objects file
IndexedFromFile ==
  /\ cosmicObjects.present
  /\ cosmicObjects.distances
       = DistanceRecords(boot.files[CosmicObjectsFile].pairs)
  /\ distanceCache = BuildDistanceCache(cosmicObjects.distances)

\* C29: BootScene starts MenuScene only after DataManager.init has resolved
\* (both files loaded, validated and indexed) and StateManager.init has
\* run, in that order. If loading or validation fails the init promise
\* rejects, MenuScene is never started and the error is shown.
C29_MenuOnlyAfterInit ==
  /\ [](boot.menuStarted =>
          /\ boot.initPromise = "resolved"
          /\ \A file \in BootFiles : ~BadFile(file)
          /\ IndexedFromFile
          /\ boot.stateManagerReady
          /\ boot.log = <<"create", "indexed", "StateManager.init",
                          "MenuScene">>
          /\ ~boot.errorShown)
  /\ [](boot.stateManagerReady => boot.initPromise = "resolved")
  /\ [](boot.initPromise = "resolved" =>
          /\ boot.loaderComplete
          /\ \A file \in BootFiles : ~BadFile(file)
          /\ IndexedFromFile)
  /\ []((\E file \in BootFiles : boot.files[file] = Failed) =>
          boot.initPromise = "rejected")
  /\ []((boot.loaderComplete /\ \E file \in BootFiles : BadFile(file)) =>
          boot.initPromise = "rejected")
  /\ [](boot.initPromise = "rejected" =>
          /\ ~boot.menuStarted
          /\ ~boot.stateManagerReady
          /\ boot.step \in {"loading", "error"})
  /\ [](boot.errorShown <=> boot.step = "error")
  /\ [][boot.initPromise \in {"resolved", "rejected"} =>
          boot'.initPromise = boot.initPromise]_vars
  /\ (boot.initPromise = "rejected") ~> boot.errorShown

\* both files were good: MenuScene is started
C29_Witness ==
  /\ boot.menuStarted
  /\ boot.initPromise = "resolved"
  /\ boot.files[CosmicObjectsFile].pairs # <<>>
  /\ IndexedFromFile

\* both files loaded but an object lacks a field: the error is shown
C29_WitnessInvalid ==
  /\ boot.errorShown
  /\ boot.files[CosmicObjectsFile].kind = "badObject"
  /\ boot.files[PhysicalConstantsFile].kind = "valid"
  /\ boot.initPromise = "rejected"

\* a file could not be loaded: the error is shown
C29_WitnessLoadError ==
  /\ boot.errorShown
  /\ boot.files[PhysicalConstantsFile] = Failed
  /\ boot.loadingError

(***************************************************************************)
(* reset(): C30                                                            *)
(***************************************************************************)
\* reset() has just run: nothing was clicked since
ResetDone ==
  /\ scene.handler = "reset"
  /\ last.obj = "ObjectSelector"
  /\ last.op = "clearSelection"

\* C30: reset() returns the scene to its initial state from any phase in
\* which it can be invoked: afterwards the phase is 'selection', the
\* scene's selectedIds is null, the ObjectSelector's selection is empty with
\* no card selected, and distanceAnimator and lightTraveler are null; the
\* next comparison starts only with the second of two fresh selections.
C30_ResetRestoresInitialState ==
  /\ [](ResetDone =>
          /\ scene.animationPhase = SelectionPhase
          /\ scene.oldPhase \in {DistanceAnimationPhase, LightTravelPhase}
          /\ scene.selectedIds = NullIds
          /\ osIds = <<>>
          /\ cardSelected = {}
          /\ scene.distanceAnimator = "null"
          /\ scene.traveler = "null"
          /\ lightTraveler = NoTraveler
          /\ scene.selectorVisible
          /\ ~scene.scaleDisplayVisible
          /\ ~scene.distanceButton
          /\ ~scene.newComparisonButton)
  /\ [][ResetDone =>
          /\ scene'.handler # "onSelectionComplete"
          /\ scene'.animationPhase = SelectionPhase \/ ~scene'.active]_vars
  /\ [][/\ scene.animationPhase = SelectionPhase
         /\ scene'.animationPhase = ScaleDisplayPhase
         => /\ scene'.handler = "onSelectionComplete"
            /\ Len(osIds) = 1
            /\ last.op = "selectObject"
            /\ scene'.selectedIds = <<osIds[1], last'.arg>>]_vars

\* reset() after a whole comparison: the light had arrived
C30_Witness ==
  /\ ResetDone
  /\ scene.oldPhase = LightTravelPhase
  /\ Len(last.before) = MAX_SELECTIONS
  /\ osIds = <<>>
  /\ scene.selectedIds = NullIds

\* reset() after the distance lookup missed
C30_WitnessNoDistance ==
  /\ ResetDone
  /\ scene.oldPhase = DistanceAnimationPhase
  /\ osIds = <<>>
  /\ scene.selectedIds = NullIds

\* the comparison after a reset has begun with two fresh selections
C30_WitnessNextComparison ==
  /\ scene.handler = "onSelectionComplete"
  /\ scene.oldPhase = SelectionPhase
  /\ last.prevOp = "selectObject"
  /\ Len(last.before) = 1
  /\ cosmicObjects.present
  /\ scene.selectedIds = osIds

====
